---- MODULE Spec2Model ----
(***************************************************************************)
(* gallery-image: the compositor (LayoutImage.generate in its three        *)
(* versions: with a dimension probe, with noteImageSize squares, and with  *)
(* a concurrent forEach fan-out), the ImageResource (lazy, memoizing image *)
(* handle) and the Art item (source + thumbnail map).                      *)
(***************************************************************************)
EXTENDS Integers, Naturals, Sequences, FiniteSets, Bags, TLC

(* ---- bounds ---- *)
MaxRows == 2
MaxCols == 2
MaxCells == 4
MaxSize == 2
MaxCalls == 3
MaxWidth == 2
MaxTasks == 2
MaxArtCalls == 2
MaxDim == 544
MaxPool == 3
MaxRatio == 3
MaxRatioExp == 3
MaxSerOps == 2
MaxManifests == 2
MaxGenCalls == 3
MaxTileDim == 260
MaxArts == 2
MaxResources == 4
MaxCanvases == 2

VARIABLES
  (* compositor: one run of LayoutImage.generate *)
  variant, numRows, numCols, thumbnailSize, thumbHeight,
  apc, imageWidth, imageHeight, x, y, row, col,
  totalCount, totalDone, cellSt, blocks, compositeCalls, canvas,
  (* one ImageResource and the tasks that use it *)
  resId, resBuffer, resDims, hadInitial, ntasks, fetchCount, bufferWrites,
  savedCount, pending, lastResult, firstReturn, lastReturn, calls,
  (* one Art item *)
  artInput, artSt, artErr, sourceName, artSource, thumbnails, initWidths,
  completed, resizeCalls, nextRes, inflight, artCalls, lastCall,
  (* one call of minimumTileSize *)
  widthOrHeight, tilePc, tileSize,
  (* one Layout under construction *)
  layIn, layPc, layErr, layArray, layNumRows, layNumCols,
  width, height, prow, pcol, thisRow, pattern, usedNotes,
  (* one Art built from a flat object, and what it is serialized to *)
  flatIn, art, serPc, serOps, flatOut, iiifOut, fromErr, fromArt,
  (* one call of Layout.arrayToIiif *)
  iiifType, iiifOptions, iiifArray, iiifPc, iiifDone, iiifItems, iiifOutput,
  (* one call of Layout.randomFromIiif *)
  iiifObject, rndPc, rndErr, artList, rndLayout,
  (* one Layout and the generateImage calls made on it *)
  genLayout, image, genOptions, composing, genCalls, genErr, genStarted,
  genSaved,
  (* one call of ImageResource._tiffWithPyramids *)
  dimensions, tiffPc, tileWidth, tileHeight,
  (* the fetch of the cell being loaded, in getResourceBuffer *)
  fetchPhase, timeout, network,
  (* the Art instances of a program and the ImageResources they hold *)
  arts, partOf

asmVars == <<variant, numRows, numCols, thumbnailSize, thumbHeight,
             apc, imageWidth, imageHeight, x, y, row, col,
             totalCount, totalDone, cellSt, blocks, compositeCalls, canvas>>
resVars == <<resId, resBuffer, resDims, hadInitial, ntasks, fetchCount,
             bufferWrites, savedCount, pending, lastResult, firstReturn,
             lastReturn, calls>>
artVars == <<artInput, artSt, artErr, sourceName, artSource, thumbnails,
             initWidths, completed, resizeCalls, nextRes, inflight, artCalls,
             lastCall>>
tileVars == <<widthOrHeight, tilePc, tileSize>>
layVars == <<layIn, layPc, layErr, layArray, layNumRows, layNumCols,
             width, height, prow, pcol, thisRow, pattern, usedNotes>>
serVars == <<flatIn, art, serPc, serOps, flatOut, iiifOut, fromErr, fromArt>>
gridVars == <<iiifType, iiifOptions, iiifArray, iiifPc, iiifDone, iiifItems,
              iiifOutput>>
rndVars == <<iiifObject, rndPc, rndErr, artList, rndLayout>>
genVars == <<genLayout, image, genOptions, composing, genCalls, genErr,
             genStarted, genSaved>>
tiffVars == <<dimensions, tiffPc, tileWidth, tileHeight>>
fetchVars == <<fetchPhase, timeout, network>>
ownVars == <<arts, partOf>>
extVars == <<tileVars, layVars, serVars, gridVars, rndVars, genVars, tiffVars, fetchVars, ownVars>>
vars == <<asmVars, resVars, artVars, extVars>>

(***************************************************************************)
(* Compositor                                                              *)
(***************************************************************************)
Variants == {"probe", "noteImageSize", "concurrent"}

Cells == (0..(numRows - 1)) \X (0..(numCols - 1))

(* the ArtBlock pushed for the cell being loaded: input is the cell's      *)
(* thumbnail buffer, top/left come from the counters in scope              *)
ArtBlock(cell, yy, xx) ==
  [input |-> cell, top |-> yy * imageHeight, left |-> xx * imageWidth]

PollReadyEarly == totalDone >= 1
(* the poll's exit condition *)
PollReady == totalDone = totalCount

(* the base canvas handed to sharp({create: ...}) *)
CanvasSpec ==
  [width |-> imageWidth * numCols, height |-> imageHeight * numRows,
   blocks |-> blocks]

AsmIdle ==
  /\ variant = "none" /\ numRows = 0 /\ numCols = 0
  /\ thumbnailSize = 0 /\ thumbHeight = 0
  /\ apc = "off" /\ imageWidth = 0 /\ imageHeight = 0
  /\ x = 0 /\ y = 0 /\ row = 0 /\ col = 0
  /\ totalCount = 0 /\ totalDone = 0
  /\ cellSt = <<>> /\ blocks = <<>> /\ compositeCalls = 0 /\ canvas = <<>>

InitAsm ==
  /\ variant \in Variants
  /\ numRows \in 1..MaxRows
  /\ numCols \in 1..MaxCols
  /\ numRows * numCols <= MaxCells
  /\ thumbnailSize \in 1..MaxSize
  /\ thumbHeight \in 1..MaxSize
  /\ apc = "start"
  /\ imageWidth = 0 /\ imageHeight = 0
  /\ x = 0 /\ y = 0 /\ row = 0 /\ col = 0
  /\ totalCount = 0 /\ totalDone = 0
  /\ cellSt = [c \in Cells |-> "idle"]
  /\ blocks = <<>> /\ compositeCalls = 0 /\ canvas = <<>>

(* LayoutImage.ts:88-100: the probe of array[0][0], outside any try/catch  *)
ProbeSample(ok) ==
  /\ apc = "start" /\ variant = "probe"
  /\ IF ok
       THEN /\ imageWidth' = thumbnailSize
            /\ imageHeight' = thumbHeight
            /\ totalCount' = numRows * numCols
            /\ apc' = "loop"
       ELSE /\ apc' = "aborted"
            /\ UNCHANGED <<imageWidth, imageHeight, totalCount>>
  /\ UNCHANGED <<variant, numRows, numCols, thumbnailSize, thumbHeight,
                 x, y, row, col, totalDone, cellSt, blocks,
                 compositeCalls, canvas>>

(* LayoutImage.ts:307-316: no probe, cells are noteImageSize squares *)
StartSequential ==
  /\ apc = "start" /\ variant = "noteImageSize"
  /\ imageWidth' = thumbnailSize /\ imageHeight' = thumbnailSize
  /\ totalCount' = numRows * numCols
  /\ apc' = "loop"
  /\ UNCHANGED <<variant, numRows, numCols, thumbnailSize, thumbHeight,
                 x, y, row, col, totalDone, cellSt, blocks,
                 compositeCalls, canvas>>

(* LayoutImage.ts:109-135: one iteration of the loops, the awaited load     *)
(* included; `let x = 0` is inside the row loop                            *)
LoadCell(ok) ==
  /\ apc = "loop" /\ variant = "probe"
  /\ cellSt' = [cellSt EXCEPT ![<<row, col>>] = IF ok THEN "ok" ELSE "failed"]
  /\ blocks' = IF ok THEN Append(blocks, ArtBlock(<<row, col>>, y, x))
                     ELSE blocks
  /\ totalDone' = totalDone + 1
  /\ IF col + 1 < numCols
       THEN /\ col' = col + 1 /\ x' = x + 1
            /\ UNCHANGED <<row, y>>
       ELSE /\ col' = 0 /\ row' = row + 1 /\ y' = y + 1
            /\ x' = 0
  /\ apc' = IF col + 1 >= numCols /\ row + 1 >= numRows THEN "poll" ELSE "loop"
  /\ UNCHANGED <<variant, numRows, numCols, thumbnailSize, thumbHeight,
                 imageWidth, imageHeight, totalCount, compositeCalls, canvas>>

(* LayoutImage.ts:316-347: the same loops with `let x=0, y=0` declared once, *)
(* before the row loop, so x keeps counting across rows                      *)
LoadCellNoteSize(ok) ==
  /\ apc = "loop" /\ variant = "noteImageSize"
  /\ cellSt' = [cellSt EXCEPT ![<<row, col>>] = IF ok THEN "ok" ELSE "failed"]
  /\ blocks' = IF ok THEN Append(blocks, ArtBlock(<<row, col>>, y, x))
                     ELSE blocks
  /\ totalDone' = totalDone + 1
  /\ x' = x + 1
  /\ IF col + 1 < numCols
       THEN /\ col' = col + 1
            /\ UNCHANGED <<row, y>>
       ELSE /\ col' = 0 /\ row' = row + 1 /\ y' = y + 1
  /\ apc' = IF col + 1 >= numCols /\ row + 1 >= numRows THEN "poll" ELSE "loop"
  /\ UNCHANGED <<variant, numRows, numCols, thumbnailSize, thumbHeight,
                 imageWidth, imageHeight, totalCount, compositeCalls, canvas>>

(* part_001:31-72: forEach(async ...) starts every cell's task and returns *)
Dispatch ==
  /\ apc = "start" /\ variant = "concurrent"
  /\ imageWidth' = thumbnailSize /\ imageHeight' = thumbnailSize
  /\ totalCount' = numRows * numCols
  /\ cellSt' = [c \in Cells |-> "pending"]
  /\ apc' = "poll"
  /\ UNCHANGED <<variant, numRows, numCols, thumbnailSize, thumbHeight,
                 x, y, row, col, totalDone, blocks, compositeCalls, canvas>>

(* part_001:45-70: a pending task resumes after its awaits, in any order *)
TaskSettles(cell, ok) ==
  /\ variant = "concurrent"
  /\ cell \in Cells /\ cellSt[cell] = "pending"
  /\ cellSt' = [cellSt EXCEPT ![cell] = IF ok THEN "ok" ELSE "failed"]
  /\ blocks' = IF ok THEN Append(blocks, ArtBlock(cell, cell[1], cell[2]))
                     ELSE blocks
  /\ totalDone' = totalDone + 1
  /\ UNCHANGED <<variant, numRows, numCols, thumbnailSize, thumbHeight,
                 apc, imageWidth, imageHeight, x, y, row, col, totalCount,
                 compositeCalls, canvas>>

(* the interval fires, the promise resolves and sharp(...).composite(blocks) runs *)
Composite ==
  /\ apc = "poll"
  /\ PollReady
  /\ compositeCalls' = compositeCalls + 1
  /\ canvas' = CanvasSpec
  /\ apc' = "done"
  /\ UNCHANGED <<variant, numRows, numCols, thumbnailSize, thumbHeight,
                 imageWidth, imageHeight, x, y, row, col, totalCount,
                 totalDone, cellSt, blocks>>

NextAsm ==
  \/ (\E ok \in BOOLEAN : ProbeSample(ok)) /\ UNCHANGED <<resVars, artVars, extVars>>
  \/ StartSequential /\ UNCHANGED <<resVars, artVars, extVars>>
  \/ (\E ok \in BOOLEAN : LoadCell(ok)) /\ UNCHANGED <<resVars, artVars, extVars>>
  \/ (\E ok \in BOOLEAN : LoadCellNoteSize(ok))
        /\ UNCHANGED <<resVars, artVars, extVars>>
  \/ Dispatch /\ UNCHANGED <<resVars, artVars, extVars>>
  \/ (\E cell \in Cells, ok \in BOOLEAN : TaskSettles(cell, ok))
        /\ UNCHANGED <<resVars, artVars, extVars>>
  \/ Composite /\ UNCHANGED <<resVars, artVars, extVars>>

(***************************************************************************)
(* ImageResource                                                           *)
(***************************************************************************)
(* An id is a location string.  What the code looks at: whether it is a    *)
(* URL, an absolute or a relative path, and whether it ends in "-buffer"   *)
(* (the in-memory marker).  Every id names an image file with an extension.*)
EmptyPath == [form |-> "empty", marker |-> FALSE]
Ids == [form : {"url", "abs", "rel"}, marker : BOOLEAN]

NoBuffer == <<>>
InitialBuffer == <<"initial">>
Fetched(n) == <<"fetched", n>>

Truthy(p) == p # EmptyPath

validatePathRejects(id) ==
  IF id.form = "rel" THEN EmptyPath ELSE id
(* Util.validatePath: a URL or an absolute path is returned as is, any     *)
(* other string goes through path.resolve, which only prepends the cwd     *)
validatePath(id) ==
  IF id.form = "rel" THEN [id EXCEPT !.form = "abs"] ELSE id

(* Util.saveFile: `${cleanTrailingSlash(outputDir)}/${name}` *)
saveFile(name) == [form |-> "rel", marker |-> FALSE]

CachedNever == FALSE
(* loadResource's `if (this.buffer) return this.buffer` *)
Cached == resBuffer # NoBuffer

Ops == {"loadResource", "getDimensions", "generateThumbnail",
        "generateImage", "toIiifContentResource"}
(* opt: generateThumbnail - the width is nonzero; generateImage - the      *)
(* output type is tif/tiff; toIiifContentResource - saveFile and outputDir *)
Calls == [op : Ops, opt : BOOLEAN]
NoResult == [op |-> "none", opt |-> FALSE, outcome |-> "none", value |-> <<>>]
Result(c, o, v) == [op |-> c.op, opt |-> c.opt, outcome |-> o, value |-> v]
NoReturn == [buffer |-> NoBuffer, fetches |-> 0]
(* a loadResource return, with the number of fetches started so far *)
Return(buf) == [buffer |-> buf, fetches |-> fetchCount]

ResIdle ==
  /\ resId = EmptyPath /\ resBuffer = NoBuffer /\ resDims = FALSE
  /\ hadInitial = FALSE /\ ntasks = 0
  /\ fetchCount = 0 /\ bufferWrites = 0 /\ savedCount = 0
  /\ pending = EmptyBag /\ lastResult = NoResult
  /\ firstReturn = NoReturn /\ lastReturn = NoReturn /\ calls = 0

(* the state after `new ImageResource({id, art, buffer?, dimensions?})`,   *)
(* used by up to n calls at a time                                         *)
InitResWith(n) ==
  /\ resId \in Ids
  /\ hadInitial \in BOOLEAN
  /\ resBuffer = IF hadInitial THEN InitialBuffer ELSE NoBuffer
  /\ resDims \in BOOLEAN
  /\ ntasks = n
  /\ fetchCount = 0 /\ bufferWrites = 0 /\ savedCount = 0
  /\ pending = EmptyBag /\ lastResult = NoResult
  /\ firstReturn = NoReturn /\ lastReturn = NoReturn /\ calls = 0

(* the rest of toIiifContentResource once the dimensions are known,        *)
(* ImageResource.ts:447-470; yields <<outcome, returned id, this.id, saved>> *)
ContentResource(id, buf, opt) ==
  LET resourceId == validatePath(id) IN
  IF Truthy(resourceId)
    THEN <<"ok", resourceId, id, 0>>
    ELSE IF id.marker /\ buf # NoBuffer
           THEN IF ~opt THEN <<"error", <<>>, id, 0>>
                ELSE LET newId == saveFile(id) IN <<"ok", newId, newId, 1>>
           ELSE <<"error", <<>>, id, 0>>

(* what an operation does after its loadResource has produced buf;         *)
(* yields <<result, dimensions known, this.id, saved>>                     *)
Continue(c, id, buf, dims) ==
  CASE c.op = "loadResource" -> <<Result(c, "ok", buf), dims, id, 0>>
    [] c.op = "getDimensions" -> <<Result(c, "ok", <<>>), TRUE, id, 0>>
    [] c.op = "generateThumbnail" -> <<Result(c, "ok", <<>>), dims, id, 0>>
    [] c.op = "generateImage" ->
         <<Result(c, "ok", <<>>), IF c.opt THEN TRUE ELSE dims, id, 0>>
    [] c.op = "toIiifContentResource" ->
         LET r == ContentResource(id, buf, c.opt) IN
         <<Result(c, r[1], r[2]), TRUE, r[3], r[4]>>

(* does the operation reach loadResource at all? *)
NeedsLoad(c) ==
  CASE c.op = "generateThumbnail" -> c.opt
    [] c.op = "toIiifContentResource" -> ~resDims
    [] OTHER -> TRUE

(* loadResource returns buf to its caller *)
LogReturn(buf) ==
  /\ firstReturn' = IF firstReturn = NoReturn THEN Return(buf) ELSE firstReturn
  /\ lastReturn' = Return(buf)

(* an operation is called and runs up to its first pending await *)
Call(c) ==
  /\ BagCardinality(pending) < ntasks
  /\ calls < MaxCalls
  /\ calls' = calls + 1
  /\ IF ~NeedsLoad(c)
       THEN (* no load: generateThumbnail(0) throws, toIiif goes on *)
            LET r == IF c.op = "generateThumbnail"
                       THEN <<Result(c, "error", <<>>), resDims, resId, 0>>
                       ELSE Continue(c, resId, resBuffer, resDims) IN
            /\ lastResult' = r[1]
            /\ resDims' = r[2] /\ resId' = r[3]
            /\ savedCount' = savedCount + r[4]
            /\ UNCHANGED <<pending, firstReturn, lastReturn, fetchCount>>
       ELSE IF Cached
         THEN LET r == Continue(c, resId, resBuffer, resDims) IN
              /\ lastResult' = r[1]
              /\ resDims' = r[2] /\ resId' = r[3]
              /\ savedCount' = savedCount + r[4]
              /\ LogReturn(resBuffer)
              /\ UNCHANGED <<pending, fetchCount>>
         ELSE /\ pending' = pending (+) SetToBag({c})
              /\ fetchCount' = fetchCount + 1
              /\ UNCHANGED <<lastResult, resDims, resId, savedCount,
                             firstReturn, lastReturn>>
  /\ UNCHANGED <<resBuffer, hadInitial, ntasks, bufferWrites>>

(* getResourceBuffer settles: `this.buffer = await getResourceBuffer(this.id)` *)
FetchSettles(c, ok) ==
  /\ BagIn(c, pending)
  /\ pending' = pending (-) SetToBag({c})
  /\ IF ok
       THEN LET buf == Fetched(bufferWrites + 1)
                r == Continue(c, resId, buf, resDims) IN
            /\ resBuffer' = buf
            /\ bufferWrites' = bufferWrites + 1
            /\ lastResult' = r[1]
            /\ resDims' = r[2] /\ resId' = r[3]
            /\ savedCount' = savedCount + r[4]
            /\ LogReturn(buf)
       ELSE /\ lastResult' = Result(c, "error", <<>>)
            /\ UNCHANGED <<resBuffer, bufferWrites, resDims, resId,
                           savedCount, firstReturn, lastReturn>>
  /\ UNCHANGED <<hadInitial, ntasks, fetchCount, calls>>

NextRes ==
  \/ (\E c \in Calls : Call(c)) /\ UNCHANGED <<asmVars, artVars, extVars>>
  \/ (\E c \in Calls, ok \in BOOLEAN : FetchSettles(c, ok))
        /\ UNCHANGED <<asmVars, artVars, extVars>>

(***************************************************************************)
(* Art                                                                     *)
(***************************************************************************)
Widths == 1..MaxWidth
SourceKinds == {"none", "string", "url", "buffer", "resource", "orig"}
(* a constructor argument: the kind of its source (orig: the legacy shape), *)
(* whether metadata.title is set, and the keys of its thumbnails object     *)
ArtInputs == [source : SourceKinds, title : BOOLEAN, widths : SUBSET Widths]
NoInput == [source |-> "none", title |-> FALSE, widths |-> {}]

NoResource == [rid |-> 0, id |-> EmptyPath, buffer |-> FALSE]
Location == [form |-> "url", marker |-> FALSE]
(* `${sourceName}-${thumbnailSize}px.jpeg-buffer` *)
MemoryMarker == [form |-> "rel", marker |-> TRUE]
ImageName == [form |-> "rel", marker |-> FALSE]
(* the id setArtSource gives the resource of a buffer source: null *)
BufferSourceId == EmptyPath

(* the ImageResource constructor's check `!options.id` (options.art is this) *)
CtorAccepts(id) == Truthy(id)
Resource(rid, id, buf) == [rid |-> rid, id |-> id, buffer |-> buf]

(* Art.thumbnailExists: Object.keys(this.thumbnails).includes(String(size)) *)
thumbnailExists(w) == w \in DOMAIN thumbnails

SetThumbnailOnly(map, w, r) == [k \in {w} |-> r]
(* this.thumbnails[size] = resource *)
SetThumbnail(map, w, r) ==
  [k \in (DOMAIN map) \cup {w} |-> IF k = w THEN r ELSE map[k]]

AlreadyExistsSkipped(w) == FALSE
(* createThumbnail's `if (this.thumbnailExists(thumbnailSize)) throw` *)
AlreadyExists(w) == thumbnailExists(w)

ThumbOptions == {"undefined", "memory", "save", "saveNoDir"}
(* a call in flight: where it waits, its width and options, and the        *)
(* thumbnail resource it holds (loadThumbnail)                             *)
Task(pc, op, w, opts, rid) ==
  [pc |-> pc, op |-> op, w |-> w, opts |-> opts, rid |-> rid]
(* the last call made: whether its width was in the map, and how it went *)
NoArtCall == [op |-> "none", existed |-> FALSE, result |-> "none"]
ArtCall(op, w, result) ==
  [op |-> op, existed |-> thumbnailExists(w), result |-> result]
Waiting(pc) == {k \in BagToSet(inflight) : k.pc = pc}
Replace(k, new) == (inflight (-) SetToBag({k})) (+) SetToBag({new})
Finish(k) == inflight (-) SetToBag({k})

ArtIdle ==
  /\ artInput = NoInput /\ artSt = "off" /\ artErr = "none"
  /\ sourceName = "unset" /\ artSource = NoResource
  /\ thumbnails = <<>> /\ initWidths = {} /\ completed = {}
  /\ resizeCalls = 0 /\ nextRes = 0 /\ inflight = EmptyBag /\ artCalls = 0
  /\ lastCall = NoArtCall

InitArt ==
  /\ artInput = NoInput /\ artSt = "new" /\ artErr = "none"
  /\ sourceName = "unset" /\ artSource = NoResource
  /\ thumbnails = <<>> /\ initWidths = {} /\ completed = {}
  /\ resizeCalls = 0 /\ nextRes = 0
  /\ inflight = EmptyBag
  /\ artCalls = 0 /\ lastCall = NoArtCall

(* Art.setArtSource: <<error, sourceName, source resource>> *)
setArtSource(in, rid) ==
  CASE in.source = "none" -> <<"NoSource", "unset", NoResource>>
    [] in.source = "string" ->
         <<"none", "fileName", Resource(rid, Location, FALSE)>>
    [] in.source = "url" ->
         <<"none", "pathname", Resource(rid, Location, FALSE)>>
    [] in.source = "buffer" ->
         IF ~in.title THEN <<"TitleRequired", "unset", NoResource>>
         ELSE IF ~CtorAccepts(BufferSourceId)
           THEN <<"MissingProperty", "title", NoResource>>
           ELSE <<"none", "title", Resource(rid, BufferSourceId, TRUE)>>
    [] in.source = "resource" ->
         <<"none", "unset", Resource(rid, Location, FALSE)>>
    [] in.source = "orig" ->
         <<"none", "fileName", Resource(rid, Location, FALSE)>>

(* new Art(options): the thumbnails first, then the source *)
Construct(in) ==
  /\ artSt = "new"
  /\ artInput' = in
  /\ LET n == Cardinality(in.widths)
         src == setArtSource(in, n + 1)
         (* the k-th key gets the k-th new resource *)
         rank(w) == Cardinality({v \in in.widths : v <= w})
     IN /\ artErr' = src[1]
        /\ artSt' = IF src[1] = "none" THEN "built" ELSE "failed"
        /\ sourceName' = IF src[1] = "none" THEN src[2] ELSE "unset"
        /\ artSource' = src[3]
        /\ thumbnails' = IF src[1] = "none" /\ in.widths # {}
                           THEN [w \in in.widths |->
                                   Resource(rank(w), Location, FALSE)]
                           ELSE <<>>
        /\ initWidths' = IF src[1] = "none" THEN in.widths ELSE {}
        /\ nextRes' = n + 1
  /\ UNCHANGED <<completed, resizeCalls, inflight, artCalls, lastCall>>

(* the synchronous head of createThumbnail(w, opts): <<result, next pc>> *)
createHead(w) ==
  IF w = 0 THEN <<"SizeRequired", "idle">>
  ELSE IF AlreadyExists(w) THEN <<"StateConflict", "idle">>
  ELSE IF artSource = NoResource THEN <<"NoSource", "idle">>
  ELSE <<"pending", "loadingSource">>

CanCall ==
  /\ artSt = "built"
  /\ BagCardinality(inflight) < MaxTasks
  /\ artCalls < MaxArtCalls

(* Art.createThumbnail up to `await this.source.generateThumbnail(...)` *)
CreateThumbnail(w, opts) ==
  /\ CanCall
  /\ LET h == createHead(w) IN
     /\ inflight' = IF h[2] = "idle" THEN inflight
                    ELSE inflight (+)
                           SetToBag({Task(h[2], "createThumbnail", w, opts, 0)})
     /\ lastCall' = ArtCall("createThumbnail", w, h[1])
  /\ artCalls' = artCalls + 1
  /\ UNCHANGED <<artInput, artSt, artErr, sourceName, artSource, thumbnails,
                 initWidths, completed, resizeCalls, nextRes>>

(* Art.loadOrCreateThumbnail up to its first await *)
LoadOrCreateThumbnail(w) ==
  /\ CanCall
  /\ IF ~thumbnailExists(w)
       THEN LET h == createHead(w) IN
            /\ inflight' = IF h[2] = "idle" THEN inflight
                           ELSE inflight (+) SetToBag({
                             Task(h[2], "loadOrCreateThumbnail", w, "memory", 0)})
            /\ lastCall' = ArtCall("loadOrCreateThumbnail", w, h[1])
       ELSE /\ inflight' = inflight (+) SetToBag({
                             Task("loadingThumb", "loadOrCreateThumbnail", w,
                                  "memory", thumbnails[w].rid)})
            /\ lastCall' = ArtCall("loadOrCreateThumbnail", w, "pending")
  /\ artCalls' = artCalls + 1
  /\ UNCHANGED <<artInput, artSt, artErr, sourceName, artSource, thumbnails,
                 initWidths, completed, resizeCalls, nextRes>>

(* generateThumbnail: the source's loadResource settles, sharp is called *)
SourceLoaded(k, ok) ==
  /\ k \in Waiting("loadingSource")
  /\ IF ok
       THEN /\ artSource' = [artSource EXCEPT !.buffer = TRUE]
            /\ resizeCalls' = resizeCalls + 1
            /\ inflight' = Replace(k, [k EXCEPT !.pc = "resizing"])
       ELSE /\ inflight' = Finish(k)
            /\ UNCHANGED <<artSource, resizeCalls>>
  /\ UNCHANGED <<artInput, artSt, artErr, sourceName, thumbnails, initWidths,
                 completed, nextRes, artCalls, lastCall>>

(* the id generateThumbnail gives the new resource; EmptyPath: it threw *)
thumbnailId(opts) ==
  CASE opts = "save" -> saveFile(ImageName)
    [] opts = "memory" -> MemoryMarker
    [] OTHER -> EmptyPath

(* sharp settles; generateThumbnail returns and createThumbnail stores *)
Resized(k, ok) ==
  /\ k \in Waiting("resizing")
  /\ LET id == thumbnailId(k.opts) IN
     IF ok /\ Truthy(id) /\ CtorAccepts(id)
       THEN /\ thumbnails' =
                 SetThumbnail(thumbnails, k.w, Resource(nextRes + 1, id, TRUE))
            /\ nextRes' = nextRes + 1
            /\ completed' = completed \cup {k.w}
            /\ inflight' = IF k.op = "loadOrCreateThumbnail"
                             THEN Replace(k, [k EXCEPT !.pc = "created"])
                             ELSE Finish(k)
       ELSE /\ inflight' = Finish(k)
            /\ UNCHANGED <<thumbnails, nextRes, completed>>
  /\ UNCHANGED <<artInput, artSt, artErr, sourceName, artSource, initWidths,
                 resizeCalls, artCalls, lastCall>>

(* loadOrCreateThumbnail resumes: loadThumbnail(w) up to loadResource *)
LoadThumbnail(k) ==
  /\ k \in Waiting("created")
  /\ inflight' =
       IF thumbnailExists(k.w) /\ ~thumbnails[k.w].buffer
         THEN Replace(k, [k EXCEPT !.pc = "loadingThumb",
                                   !.rid = thumbnails[k.w].rid])
         ELSE Finish(k)
  /\ UNCHANGED <<artInput, artSt, artErr, sourceName, artSource, thumbnails,
                 initWidths, completed, resizeCalls, nextRes, artCalls,
                 lastCall>>

(* the thumbnail resource's loadResource settles *)
ThumbLoaded(k, ok) ==
  /\ k \in Waiting("loadingThumb")
  /\ thumbnails' =
       IF ok /\ thumbnailExists(k.w) /\ thumbnails[k.w].rid = k.rid
         THEN [thumbnails EXCEPT ![k.w].buffer = TRUE]
         ELSE thumbnails
  /\ inflight' = Finish(k)
  /\ UNCHANGED <<artInput, artSt, artErr, sourceName, artSource, initWidths,
                 completed, resizeCalls, nextRes, artCalls, lastCall>>

(* Art.addThumbnail(w, path) *)
AddThumbnail(w, path) ==
  /\ artSt = "built" /\ artCalls < MaxArtCalls
  /\ artCalls' = artCalls + 1
  /\ IF CtorAccepts(path)
       THEN /\ thumbnails' =
                 SetThumbnail(thumbnails, w, Resource(nextRes + 1, path, FALSE))
            /\ nextRes' = nextRes + 1
            /\ completed' = completed \cup {w}
            /\ lastCall' = ArtCall("addThumbnail", w, "ok")
       ELSE /\ lastCall' = ArtCall("addThumbnail", w, "MissingProperty")
            /\ UNCHANGED <<thumbnails, nextRes, completed>>
  /\ UNCHANGED <<artInput, artSt, artErr, sourceName, artSource, initWidths,
                 resizeCalls, inflight>>

NextArt ==
  \/ (\E in \in ArtInputs : Construct(in)) /\ UNCHANGED <<asmVars, resVars, extVars>>
  \/ (\E w \in 0..MaxWidth, o \in ThumbOptions : CreateThumbnail(w, o))
        /\ UNCHANGED <<asmVars, resVars, extVars>>
  \/ (\E w \in 0..MaxWidth : LoadOrCreateThumbnail(w))
        /\ UNCHANGED <<asmVars, resVars, extVars>>
  \/ (\E k \in BagToSet(inflight), ok \in BOOLEAN : SourceLoaded(k, ok))
        /\ UNCHANGED <<asmVars, resVars, extVars>>
  \/ (\E k \in BagToSet(inflight), ok \in BOOLEAN : Resized(k, ok))
        /\ UNCHANGED <<asmVars, resVars, extVars>>
  \/ (\E k \in BagToSet(inflight) : LoadThumbnail(k))
        /\ UNCHANGED <<asmVars, resVars, extVars>>
  \/ (\E k \in BagToSet(inflight), ok \in BOOLEAN : ThumbLoaded(k, ok))
        /\ UNCHANGED <<asmVars, resVars, extVars>>
  \/ (\E w \in Widths, p \in {Location, EmptyPath} : AddThumbnail(w, p))
        /\ UNCHANGED <<asmVars, resVars, extVars>>

(***************************************************************************)
(* Tile size                                                               *)
(***************************************************************************)
(* Util.ts:75: while (m % 16 == 0 && m > 256) m /= 2 *)
RECURSIVE Halve(_)
Halve(m) == IF m % 16 = 0 /\ m > 256 THEN Halve(m \div 2) ELSE m

(* Util.minimumTileSize *)
minimumTileSize(d) == Halve(d - (d % 16))

TileIdle == widthOrHeight = 0 /\ tilePc = "off" /\ tileSize = 0

InitTile == widthOrHeight \in 16..MaxDim /\ tilePc = "start" /\ tileSize = 0

TileSize ==
  /\ tilePc = "start"
  /\ tileSize' = minimumTileSize(widthOrHeight)
  /\ tilePc' = "done"
  /\ UNCHANGED widthOrHeight

NextTile ==
  TileSize /\ UNCHANGED <<asmVars, resVars, artVars, layVars, serVars, gridVars,
                 rndVars,
                 genVars,
                 tiffVars,
                 fetchVars,
                 ownVars>>

(***************************************************************************)
(* Layout construction                                                     *)
(***************************************************************************)
(* a ratio is the fraction num / 2^exp; NoRatio is an absent (falsy) ratio *)
Ratios == [num : 1..MaxRatio, exp : 0..MaxRatioExp]
NoRatio == [num |-> 0, exp |-> 0]
(* the default `9/16` of createFromOptions *)
DefaultRatio == [num |-> 9, exp |-> 4]

(* a 2-D array of art objects, by the length of each of its rows *)
ArrayShapes == UNION {[1..n -> 0..MaxCols] : n \in 0..MaxRows}

(* LayoutOptions: a count of 0 is an absent (falsy) count *)
LayoutOptions ==
  [kind : {"options"}, name : BOOLEAN,
   hasArray : BOOLEAN, array : ArrayShapes,
   hasArtList : BOOLEAN, artList : 0..MaxPool,
   ratio : Ratios \cup {NoRatio},
   numRows : 0..MaxRows, numCols : 0..MaxCols]
(* LayoutObject: a flat layout with an id *)
LayoutObjects ==
  [kind : {"object"}, name : {TRUE},
   hasArray : {TRUE}, array : ArrayShapes,
   hasArtList : {FALSE}, artList : {0},
   ratio : {NoRatio},
   numRows : 1..MaxRows, numCols : 1..MaxCols]
LayoutInputs ==
  {o \in LayoutOptions : /\ (~o.hasArray => o.array = <<>>)
                         /\ (~o.hasArtList => o.artList = 0)}
    \cup LayoutObjects
NoLayoutInput ==
  [kind |-> "none", name |-> FALSE, hasArray |-> FALSE, array |-> <<>>,
   hasArtList |-> FALSE, artList |-> 0, ratio |-> NoRatio,
   numRows |-> 0, numCols |-> 0]

(* unpackArtArray: one Art per cell, row by row *)
unpackArtArray(shape) ==
  [r \in 1..Len(shape) |-> [c \in 1..shape[r] |-> <<r, c>>]]

(* Math.ceil(Math.sqrt(n / ratio)): the least h with h*h*ratio >= n *)
CeilSqrtOver(n, ratio) ==
  CHOOSE h \in 0..(n * (2 ^ ratio.exp) + 1) :
    /\ h * h * ratio.num >= n * (2 ^ ratio.exp)
    /\ \A g \in 0..(h - 1) : g * g * ratio.num < n * (2 ^ ratio.exp)
(* Math.ceil(h * ratio) *)
CeilTimes(h, ratio) ==
  (h * ratio.num + (2 ^ ratio.exp) - 1) \div (2 ^ ratio.exp)

PatternSizeUnchecked(totalNotes, ratio, presetRows, presetCols) ==
  IF presetCols # 0 /\ presetRows # 0
    THEN <<presetCols, presetRows>>
    ELSE LET h0 == CeilSqrtOver(totalNotes, ratio)
             w0 == CeilTimes(h0, ratio)
         IN <<w0, h0 - 1>>
(* Layout.ts:253-269: <<width, height>> of the pattern *)
PatternSize(totalNotes, ratio, presetRows, presetCols) ==
  IF presetCols # 0 /\ presetRows # 0
    THEN <<presetCols, presetRows>>
    ELSE LET h0 == CeilSqrtOver(totalNotes, ratio)
             w0 == CeilTimes(h0, ratio)
             w1 == IF (w0 - 2) * h0 >= totalNotes THEN w0 - 2 ELSE w0
             w2 == IF (w1 - 1) * h0 >= totalNotes THEN w1 - 1 ELSE w1
             h1 == IF w2 * (h0 - 1) >= totalNotes THEN h0 - 1 ELSE h0
         IN <<w2, h1>>

LayIdle ==
  /\ layIn = NoLayoutInput /\ layPc = "off" /\ layErr = "none"
  /\ layArray = <<>> /\ layNumRows = 0 /\ layNumCols = 0
  /\ width = 0 /\ height = 0 /\ prow = 0 /\ pcol = 0
  /\ thisRow = <<>> /\ pattern = <<>> /\ usedNotes = {}

InitLayout ==
  /\ layIn \in LayoutInputs /\ layPc = "new" /\ layErr = "none"
  /\ layArray = <<>> /\ layNumRows = 0 /\ layNumCols = 0
  /\ width = 0 /\ height = 0 /\ prow = 0 /\ pcol = 0
  /\ thisRow = <<>> /\ pattern = <<>> /\ usedNotes = {}

createFromOptionsCountsAndRatio(o) ==
  IF ~o.name THEN "NoName"
  ELSE IF o.hasArray
    THEN IF o.numCols # 0 \/ o.numRows # 0 THEN "ArrayWithCounts"
         ELSE IF o.array = <<>> THEN "TypeError"
         ELSE "none"
    ELSE IF ~o.hasArtList THEN "NoArtList"
         ELSE "none"
(* the synchronous checks of createFromOptions: the error it throws *)
createFromOptions(o) ==
  IF ~o.name THEN "NoName"
  ELSE IF o.hasArray
    THEN IF o.numCols # 0 \/ o.numRows # 0 THEN "ArrayWithCounts"
         ELSE IF o.ratio # NoRatio THEN "ArrayWithRatio"
         ELSE IF o.array = <<>> THEN "TypeError"
         ELSE "none"
    ELSE IF ~o.hasArtList THEN "NoArtList"
         ELSE IF (o.numRows # 0 \/ o.numCols # 0) /\ o.ratio # NoRatio
           THEN "CountsWithRatio"
         ELSE "none"

(* new Layout(options): the whole constructor up to the fill loop of       *)
(* _makeRandomPattern                                                      *)
NewLayout ==
  /\ layPc = "new"
  /\ LET o == layIn
         err == IF o.kind = "object" THEN "none" ELSE createFromOptions(o)
         size == PatternSize(o.artList,
                             IF o.ratio # NoRatio THEN o.ratio ELSE DefaultRatio,
                             o.numRows, o.numCols)
     IN IF err # "none"
          THEN /\ layPc' = "failed" /\ layErr' = err
               /\ UNCHANGED <<layArray, layNumRows, layNumCols, width, height>>
        ELSE IF o.kind = "object"
          THEN /\ layPc' = "built"
               /\ layArray' = unpackArtArray(o.array)
               /\ layNumCols' = o.numCols /\ layNumRows' = o.numRows
               /\ UNCHANGED <<layErr, width, height>>
        ELSE IF o.hasArray
          THEN /\ layPc' = "built"
               /\ layArray' = unpackArtArray(o.array)
               /\ layNumRows' = Len(o.array)
               /\ layNumCols' = o.array[1]
               /\ UNCHANGED <<layErr, width, height>>
          ELSE /\ layPc' = "fill"
               /\ width' = size[1] /\ height' = size[2]
               /\ UNCHANGED <<layErr, layArray, layNumRows, layNumCols>>
  /\ UNCHANGED <<layIn, prow, pcol, thisRow, pattern, usedNotes>>

(* Layout.ts:274-286: one pass of the do-while for the cell at (row, col):  *)
(* a used index is drawn again, an unused one is placed                    *)
Draw(i) ==
  /\ layPc = "fill"
  /\ prow < height /\ pcol < width
  /\ Cardinality(usedNotes) < layIn.artList
  /\ i \in 0..(layIn.artList - 1)
  /\ IF i \in usedNotes
       THEN UNCHANGED <<thisRow, usedNotes, pcol>>
       ELSE /\ thisRow' = Append(thisRow, i)
            /\ usedNotes' = usedNotes \cup {i}
            /\ pcol' = pcol + 1
  /\ UNCHANGED <<layIn, layPc, layErr, layArray, layNumRows, layNumCols,
                 width, height, prow, pattern>>

(* Layout.ts:273-288: the inner loop ends (col = width, or the break) and  *)
(* the row is pushed                                                       *)
EndRow ==
  /\ layPc = "fill"
  /\ prow < height
  /\ pcol >= width \/ Cardinality(usedNotes) >= layIn.artList
  /\ pattern' = Append(pattern, thisRow)
  /\ thisRow' = <<>>
  /\ prow' = prow + 1 /\ pcol' = 0
  /\ UNCHANGED <<layIn, layPc, layErr, layArray, layNumRows, layNumCols,
                 width, height, usedNotes>>

(* Layout.ts:290-291 and 180-181: the pattern is returned and stored;      *)
(* pattern[0].length of an empty pattern is a TypeError                    *)
ReturnPattern ==
  /\ layPc = "fill"
  /\ prow >= height
  /\ IF pattern = <<>>
       THEN /\ layPc' = "failed" /\ layErr' = "TypeError"
            /\ UNCHANGED <<layArray, layNumRows, layNumCols>>
       ELSE /\ layPc' = "built"
            /\ layArray' = pattern
            /\ layNumRows' = Len(pattern)
            /\ layNumCols' = Len(pattern[1])
            /\ UNCHANGED layErr
  /\ UNCHANGED <<layIn, width, height, prow, pcol, thisRow, pattern,
                 usedNotes>>

NextLayout ==
  \/ NewLayout /\ UNCHANGED <<asmVars, resVars, artVars, tileVars, serVars, gridVars,
                 rndVars,
                 genVars,
                 tiffVars,
                 fetchVars,
                 ownVars>>
  \/ (\E i \in 0..(MaxPool - 1) : Draw(i))
        /\ UNCHANGED <<asmVars, resVars, artVars, tileVars, serVars, gridVars,
                 rndVars,
                 genVars,
                 tiffVars,
                 fetchVars,
                 ownVars>>
  \/ EndRow /\ UNCHANGED <<asmVars, resVars, artVars, tileVars, serVars, gridVars,
                 rndVars,
                 genVars,
                 tiffVars,
                 fetchVars,
                 ownVars>>
  \/ ReturnPattern /\ UNCHANGED <<asmVars, resVars, artVars, tileVars, serVars, gridVars,
                 rndVars,
                 genVars,
                 tiffVars,
                 fetchVars,
                 ownVars>>

(***************************************************************************)
(* Art: flat objects and IIIF                                              *)
(***************************************************************************)
(* a key of a thumbnails object: the digits of a width, alone ("2") or     *)
(* followed by a unit ("2px")                                              *)
ThumbKeys == [width : Widths, unit : BOOLEAN]
(* thumbnailSize.match(/\d+/)[0] *)
KeyDigits(k) == [k EXCEPT !.unit = FALSE]
(* the location a thumbnails object gives for key k: one file per key *)
ThumbLocation(k) == [form |-> "url", marker |-> FALSE, name |-> k]

(* metadata: a flat record, by its keys (first letter, rest) in insertion  *)
(* order, with their values                                                *)
MetadataFields ==
  {<<>>,
   <<[key |-> <<"t", "itle">>, value |-> "A"]>>,
   <<[key |-> <<"t", "itle">>, value |-> "A"],
     [key |-> <<"c", "reator">>, value |-> "B"]>>,
   <<[key |-> <<"D", "ate">>, value |-> "C"],
     [key |-> <<"t", "itle">>, value |-> "A"]>>}

(* the locations a flat object names as its source *)
SourceLocations == {id \in Ids : ~id.marker}

(* the current flat shape {id, source, thumbnails, metadata} *)
ThumbnailObjects ==
  {IF K = {} THEN <<>> ELSE [k \in K |-> ThumbLocation(k)] :
     K \in SUBSET ThumbKeys}
ArtObjects ==
  [hasId : BOOLEAN,
   hasSource : BOOLEAN, source : SourceLocations,
   thumbnails : ThumbnailObjects,
   hasMetadata : BOOLEAN, metadata : MetadataFields]
FlatInputs ==
  {o \in ArtObjects : /\ (~o.hasSource => o.source = Location)
                      /\ (~o.hasMetadata => o.metadata = <<>>)}
NoArtObject ==
  [hasId |-> FALSE, hasSource |-> FALSE, source |-> Location,
   thumbnails |-> <<>>, hasMetadata |-> FALSE, metadata |-> <<>>]
NoArt ==
  [hasId |-> FALSE, source |-> NoResource, thumbnails |-> <<>>,
   metadata |-> <<>>]

(* the location the ImageResource constructor keeps for options.id *)
resolvePath(id) == id

(* Art.ts:422-432: this.thumbnails[size] = new ImageResource({id, art});   *)
(* Object.keys lists digit-only keys first, so a key with a unit is        *)
(* processed after the digit-only key of the same width                    *)
ThumbnailsOf(t) ==
  LET sizes == {KeyDigits(k) : k \in DOMAIN t}
      last(size) == IF [size EXCEPT !.unit = TRUE] \in DOMAIN t
                      THEN [size EXCEPT !.unit = TRUE] ELSE size
  IN IF sizes = {} THEN <<>>
     ELSE [size \in sizes |-> Resource(0, resolvePath(t[last(size)]), FALSE)]

(* new Art(artObject) for the current shape: <<error, the Art>> *)
ArtOf(o) ==
  IF ~o.hasSource THEN <<"NoSource", NoArt>>
  ELSE <<"none",
         [hasId |-> o.hasId,
          source |-> Resource(0, resolvePath(o.source), FALSE),
          thumbnails |-> ThumbnailsOf(o.thumbnails),
          metadata |-> o.metadata]>>

NoFlatOutput == [outcome |-> "none", value |-> NoArtObject]

toArtObjectSourceOnly(a) ==
  [outcome |-> "ok",
   value |-> [hasId |-> a.hasId,
              hasSource |-> TRUE, source |-> a.source.id,
              thumbnails |-> <<>>,
              hasMetadata |-> TRUE, metadata |-> a.metadata]]
(* Art.toArtObject *)
toArtObject(a) ==
  [outcome |-> "ok",
   value |-> [hasId |-> a.hasId,
              hasSource |-> TRUE, source |-> a.source.id,
              thumbnails |->
                IF DOMAIN a.thumbnails = {} THEN <<>>
                ELSE [size \in DOMAIN a.thumbnails |-> a.thumbnails[size].id],
              hasMetadata |-> TRUE, metadata |-> a.metadata]]

(* ---- IIIF projection of one Art ---- *)
(* GenerateIiifOptions: the exclude list and saveFile/outputDir            *)
IiifOptions ==
  [exclude : SUBSET {"thumbnails", "metadata"}, save : {"no", "dir", "noDir"}]
Absent == [present |-> FALSE, items |-> <<>>]
Field(items) == [present |-> TRUE, items |-> items]

(* Object.keys of an object with integer keys: ascending numeric order *)
RECURSIVE ObjectKeys(_)
ObjectKeys(S) ==
  IF S = {} THEN <<>>
  ELSE LET least == CHOOSE k \in S : \A j \in S : k.width <= j.width
       IN <<least>> \o ObjectKeys(S \ {least})

CompareAscending(a, b) == a.width - b.width
(* the comparator (a,b) => Number(b)-Number(a) *)
Compare(a, b) == b.width - a.width

(* Array.prototype.sort: e goes after the elements that do not compare     *)
(* greater than it                                                         *)
InsertSorted(seq, e) ==
  LET n == Cardinality({i \in 1..Len(seq) : Compare(seq[i], e) <= 0})
  IN SubSeq(seq, 1, n) \o <<e>> \o SubSeq(seq, n + 1, Len(seq))
RECURSIVE SortFirst(_, _)
SortFirst(seq, n) ==
  IF n = 0 THEN <<>> ELSE InsertSorted(SortFirst(seq, n - 1), seq[n])
Sort(seq) == SortFirst(seq, Len(seq))

(* the content resource of the image stored under a size: its location and *)
(* its probed width                                                        *)
IiifContent(r, w, options) ==
  LET c == ContentResource(r.id, IF r.buffer THEN InitialBuffer ELSE Fetched(1),
                           options.save = "dir")
  IN [outcome |-> c[1], id |-> c[2], width |-> w]

(* Art.toIiifThumbnail *)
toIiifThumbnail(a, options) ==
  IF "thumbnails" \in options.exclude THEN Absent
  ELSE LET sizes == Sort(ObjectKeys(DOMAIN a.thumbnails))
       IN Field([i \in 1..Len(sizes) |->
                   IiifContent(a.thumbnails[sizes[i]], sizes[i].width, options)])

(* charAt(0).toUpperCase() *)
ToUpperCase(ch) ==
  CASE ch = "t" -> "T" [] ch = "c" -> "C" [] OTHER -> ch
(* Art.toIiifMetadata *)
toIiifMetadata(a, options) ==
  IF "metadata" \in options.exclude THEN Absent
  ELSE Field([i \in 1..Len(a.metadata) |->
                [label |-> <<ToUpperCase(a.metadata[i].key[1]),
                             a.metadata[i].key[2]>>,
                 value |-> a.metadata[i].value]])

NoCanvas ==
  [type |-> "none", id |-> <<>>, body |-> <<>>, thumbnail |-> Absent,
   metadata |-> Absent]
(* Art.toIiifCanvas: <<error, canvas>> *)
toIiifCanvas(a, canvasId, options) ==
  IF canvasId = <<>> THEN <<"NoCanvasId", NoCanvas>>
  ELSE IF options.save = "noDir" THEN <<"NoOutputDir", NoCanvas>>
  ELSE <<"none",
         [type |-> "Canvas", id |-> canvasId,
          body |-> IiifContent(a.source, 0, options),
          thumbnail |-> toIiifThumbnail(a, options),
          metadata |-> toIiifMetadata(a, options)]>>

(* Art.toIiifManifest: <<error, manifest>> *)
toIiifManifest(a, manifestId, options) ==
  IF manifestId = <<>> /\ ~a.hasId THEN <<"NoManifestId", NoCanvas>>
  ELSE IF options.save = "noDir" THEN <<"NoOutputDir", NoCanvas>>
  ELSE LET id == IF manifestId = <<>> THEN <<"art">> ELSE manifestId
           iiifCanvas == toIiifCanvas(a, id \o <<"/canvas">>,
                           [exclude |-> {"thumbnails", "metadata"},
                            save |-> "no"])
       IN <<"none",
            [type |-> "Manifest", id |-> id, body |-> <<iiifCanvas[2]>>,
             thumbnail |-> toIiifThumbnail(a, options),
             metadata |-> toIiifMetadata(a, options)]>>

NoIiifOutput == [kind |-> "none", outcome |-> "none", value |-> NoCanvas]

(* ---- an Art from its IIIF projection ---- *)
(* fromIiifThumbnail: thumbnails[thumbnailItem.width] = thumbnailItem.id,  *)
(* a later item of the same width replacing an earlier one                 *)
fromIiifThumbnail(thumbnail) ==
  LET sizes == {[width |-> thumbnail[i].width, unit |-> FALSE] :
                  i \in 1..Len(thumbnail)}
      last(size) == CHOOSE i \in 1..Len(thumbnail) :
                      /\ thumbnail[i].width = size.width
                      /\ \A j \in (i + 1)..Len(thumbnail) :
                           thumbnail[j].width # size.width
  IN IF sizes = {} THEN <<>>
     ELSE [size \in sizes |-> thumbnail[last(size)].id]

(* the own enumerable keys of an array, "0", "1", ..., each with the       *)
(* element stored under it                                                 *)
ArrayAsObject(array) ==
  [i \in 1..Len(array) |-> [key |-> <<ToString(i - 1), "">>, value |-> array[i]]]

(* artOptionsFromIiif: the options new Art is given for a Canvas *)
artOptionsFromIiif(iiif) ==
  [hasId |-> iiif.id # <<>>,
   hasSource |-> TRUE, source |-> iiif.body.id,
   thumbnails |-> IF iiif.thumbnail.present
                    THEN fromIiifThumbnail(iiif.thumbnail.items) ELSE <<>>,
   hasMetadata |-> iiif.metadata.present,
   metadata |-> IF iiif.metadata.present
                  THEN ArrayAsObject(iiif.metadata.items) ELSE <<>>]

(* Art.fromIiifCanvas: <<error, the Art>> *)
fromIiifCanvas(iiifCanvas) ==
  IF iiifCanvas.type # "Canvas" THEN <<"TypeError", NoArt>>
  ELSE ArtOf(artOptionsFromIiif(iiifCanvas))

(* Art.fromIiifManifest: <<error, the Art>> *)
fromIiifManifest(manifest) ==
  IF manifest.type # "Manifest" THEN <<"TypeError", NoArt>>
  ELSE LET artOptions == artOptionsFromIiif(manifest.body[1]) IN
       ArtOf([artOptions EXCEPT
                !.hasId = manifest.id # <<>>,
                !.thumbnails =
                   IF manifest.thumbnail.present
                     THEN fromIiifThumbnail(manifest.thumbnail.items) ELSE @,
                !.hasMetadata = manifest.metadata.present \/ @,
                !.metadata =
                   IF manifest.metadata.present
                     THEN ArrayAsObject(manifest.metadata.items) ELSE @])

(* Art.fromIiif once the JSON is at hand: <<error, the Art>> *)
fromIiif(iiifJson, type) ==
  IF iiifJson.type \notin {"Canvas", "Manifest"}
    THEN <<"NotCanvasOrManifest", NoArt>>
  ELSE IF type = "Canvas" THEN fromIiifCanvas(iiifJson)
  ELSE IF type = "Manifest" THEN fromIiifManifest(iiifJson)
  ELSE <<"InvalidType", NoArt>>

SerIdle ==
  /\ flatIn = NoArtObject /\ art = NoArt /\ serPc = "off" /\ serOps = 0
  /\ flatOut = NoFlatOutput /\ iiifOut = NoIiifOutput
  /\ fromErr = "none" /\ fromArt = NoArt

InitSer ==
  /\ flatIn \in FlatInputs /\ art = NoArt /\ serPc = "new" /\ serOps = 0
  /\ flatOut = NoFlatOutput /\ iiifOut = NoIiifOutput
  /\ fromErr = "none" /\ fromArt = NoArt

(* new Art(flatIn) *)
FromArtObject ==
  /\ serPc = "new"
  /\ LET r == ArtOf(flatIn) IN
     /\ serPc' = IF r[1] = "none" THEN "built" ELSE "failed"
     /\ art' = r[2]
  /\ UNCHANGED <<flatIn, serOps, flatOut, iiifOut, fromErr, fromArt>>

(* a createThumbnail(w, options) that completes: the source is loaded and  *)
(* the generated resource is stored under w                                *)
ThumbnailCreated(w, opts) ==
  /\ serPc = "built" /\ serOps < MaxSerOps
  /\ [width |-> w, unit |-> FALSE] \notin DOMAIN art.thumbnails
  /\ Truthy(thumbnailId(opts))
  /\ art' = [art EXCEPT
               !.source.buffer = TRUE,
               !.thumbnails = SetThumbnail(art.thumbnails,
                                [width |-> w, unit |-> FALSE],
                                Resource(0, resolvePath(thumbnailId(opts)), TRUE))]
  /\ serOps' = serOps + 1
  /\ UNCHANGED <<flatIn, serPc, flatOut, iiifOut, fromErr, fromArt>>

(* art.toArtObject() *)
ToArtObject ==
  /\ serPc = "built"
  /\ flatOut' = toArtObject(art)
  /\ serPc' = "done"
  /\ UNCHANGED <<flatIn, art, serOps, iiifOut, fromErr, fromArt>>

(* the buffers an Art holds after toIiifCanvas or toIiifManifest loaded    *)
(* its source and then, unless excluded, its thumbnails                    *)
AfterLoads(a, options, fail) ==
  IF fail = "source" THEN a
  ELSE IF fail = "thumbnail" \/ "thumbnails" \in options.exclude
            \/ DOMAIN a.thumbnails = {}
    THEN [a EXCEPT !.source.buffer = TRUE]
  ELSE [a EXCEPT
          !.source.buffer = TRUE,
          !.thumbnails = [size \in DOMAIN a.thumbnails |->
                            [a.thumbnails[size] EXCEPT !.buffer = TRUE]]]

(* art.toIiifCanvas(canvasId, options) or art.toIiifManifest(id, options), *)
(* with the loads it awaits: fail names the first load that fails          *)
ToIiif(kind, id, options, fail) ==
  /\ serPc = "built"
  /\ LET r == IF kind = "Canvas" THEN toIiifCanvas(art, id, options)
                                 ELSE toIiifManifest(art, id, options)
         early == r[1] \in {"NoCanvasId", "NoManifestId"}
         reads == "thumbnails" \notin options.exclude
                    /\ DOMAIN art.thumbnails # {}
     IN /\ fail = "thumbnail" => reads
        /\ iiifOut' =
             IF early THEN [kind |-> kind, outcome |-> r[1], value |-> NoCanvas]
             ELSE IF fail # "none"
               THEN [kind |-> kind, outcome |-> "ResourceUnavailable",
                     value |-> NoCanvas]
             ELSE [kind |-> kind,
                   outcome |-> IF r[1] = "none" THEN "ok" ELSE r[1],
                   value |-> r[2]]
        /\ art' = IF early THEN art ELSE AfterLoads(art, options, fail)
  /\ serPc' = "done"
  /\ UNCHANGED <<flatIn, serOps, flatOut, fromErr, fromArt>>

(* Art.fromIiifCanvas(canvas) or Art.fromIiifManifest(manifest) on the     *)
(* object that was produced                                                *)
FromIiif ==
  /\ serPc = "done" /\ iiifOut.outcome = "ok"
  /\ LET r == IF iiifOut.kind = "Canvas" THEN fromIiifCanvas(iiifOut.value)
                                         ELSE fromIiifManifest(iiifOut.value)
     IN /\ fromErr' = r[1]
        /\ fromArt' = r[2]
  /\ serPc' = "back"
  /\ UNCHANGED <<flatIn, art, serOps, flatOut, iiifOut>>

NextSer ==
  \/ FromIiif /\ UNCHANGED <<asmVars, resVars, artVars, tileVars, layVars, gridVars,
                 rndVars,
                 genVars,
                 tiffVars,
                 fetchVars,
                 ownVars>>
  \/ FromArtObject /\ UNCHANGED <<asmVars, resVars, artVars, tileVars, layVars, gridVars,
                 rndVars,
                 genVars,
                 tiffVars,
                 fetchVars,
                 ownVars>>
  \/ (\E w \in Widths, opts \in {"memory", "save"} : ThumbnailCreated(w, opts))
        /\ UNCHANGED <<asmVars, resVars, artVars, tileVars, layVars, gridVars,
                 rndVars,
                 genVars,
                 tiffVars,
                 fetchVars,
                 ownVars>>
  \/ ToArtObject /\ UNCHANGED <<asmVars, resVars, artVars, tileVars, layVars, gridVars,
                 rndVars,
                 genVars,
                 tiffVars,
                 fetchVars,
                 ownVars>>
  \/ (\E kind \in {"Canvas", "Manifest"}, id \in {<<>>, <<"iiif">>},
          options \in IiifOptions, fail \in {"none", "source", "thumbnail"} :
          ToIiif(kind, id, options, fail))
        /\ UNCHANGED <<asmVars, resVars, artVars, tileVars, layVars, gridVars,
                 rndVars,
                 genVars,
                 tiffVars,
                 fetchVars,
                 ownVars>>

(***************************************************************************)
(* Layout.arrayToIiif                                                      *)
(***************************************************************************)
(* the Art of one cell: every cell is built from the same flat object and  *)
(* differs in its id                                                       *)
CellFlats ==
  {o \in FlatInputs :
     /\ o.hasSource /\ o.source = Location /\ o.hasMetadata
     /\ Len(o.metadata) \in {0, 2}
     /\ DOMAIN o.thumbnails \in {{}, {k \in ThumbKeys : ~k.unit}}}
CellId(r, c) == <<"art", ToString(r), ToString(c)>>
CellArt(o, r, c) ==
  [id |-> IF o.hasId THEN CellId(r, c) ELSE <<>>, art |-> ArtOf(o)[2]]
ArtArrays ==
  {[r \in 1..Len(shape) |-> [c \in 1..shape[r] |-> CellArt(o, r, c)]] :
     shape \in ArrayShapes, o \in CellFlats}

(* for (const row of this.array) for (const art of row): the cells in the  *)
(* order the loops visit them                                              *)
RECURSIVE entriesFrom(_, _)
entriesFrom(array, r) ==
  IF r > Len(array) THEN <<>>
  ELSE [c \in 1..Len(array[r]) |-> <<r, c>>] \o entriesFrom(array, r + 1)
entries(array) == entriesFrom(array, 1)

ItemTypeSame(type) == type
(* createIiifArt('Canvas', ...) for a Manifest, createIiifArt('Manifest',  *)
(* ...) for a Collection                                                   *)
ItemType(type) == IF type = "Manifest" THEN "Canvas" ELSE "Manifest"

(* the options createIiifArt is called with *)
ItemOptions == [exclude |-> {}, save |-> "no"]

(* artToIiif: <<error, item>> *)
artToIiif(cell, type) ==
  IF type = "Manifest" THEN toIiifManifest(cell.art, cell.id, ItemOptions)
  ELSE toIiifCanvas(cell.art,
                    (IF cell.id = <<>> THEN <<"undefined">> ELSE cell.id)
                      \o <<"/canvas">>,
                    ItemOptions)

NoIiifLayout == [outcome |-> "none", type |-> "none", items |-> <<>>]

GridIdle ==
  /\ iiifType = "none" /\ iiifOptions = ItemOptions /\ iiifArray = <<>>
  /\ iiifPc = "off" /\ iiifDone = 0 /\ iiifItems = <<>>
  /\ iiifOutput = NoIiifLayout

InitIiif ==
  /\ iiifType \in {"Manifest", "Collection", "Other"}
  /\ iiifOptions \in {o \in IiifOptions : o.save # "noDir"}
  /\ iiifArray \in ArtArrays
  /\ iiifPc = "start" /\ iiifDone = 0 /\ iiifItems = <<>>
  /\ iiifOutput = NoIiifLayout

(* what arrayToIiif returns once every cell is converted *)
IiifLayout(items) ==
  [outcome |-> "ok", type |-> iiifType, items |-> items]

(* layout.arrayToIiif(type, options) up to its first await *)
ArrayToIiif ==
  /\ iiifPc = "start"
  /\ IF iiifType \notin {"Manifest", "Collection"}
       THEN /\ iiifPc' = "failed"
            /\ iiifOutput' = [NoIiifLayout EXCEPT !.outcome = "InvalidType"]
       ELSE IF entries(iiifArray) = <<>>
         THEN /\ iiifPc' = "done"
              /\ iiifOutput' = IiifLayout(<<>>)
         ELSE /\ iiifPc' = "items"
              /\ UNCHANGED iiifOutput
  /\ UNCHANGED <<iiifType, iiifOptions, iiifArray, iiifDone, iiifItems>>

(* const iiif = await artToIiif(art, type); items.push(iiif) for the next  *)
(* cell, and the return after the last one; fail names the load that fails *)
ItemToIiif(fail) ==
  /\ iiifPc = "items"
  /\ LET pos == entries(iiifArray)[iiifDone + 1]
         cell == iiifArray[pos[1]][pos[2]]
         r == artToIiif(cell, ItemType(iiifType))
         early == r[1] # "none"
         error == IF early THEN r[1]
                  ELSE IF fail # "none" THEN "ResourceUnavailable" ELSE "none"
         items == Append(iiifItems, r[2])
     IN /\ fail = "thumbnail" => DOMAIN cell.art.thumbnails # {}
        /\ iiifArray' =
             IF early THEN iiifArray
             ELSE [iiifArray EXCEPT
                     ![pos[1]][pos[2]].art = AfterLoads(cell.art, ItemOptions, fail)]
        /\ IF error # "none"
             THEN /\ iiifPc' = "failed"
                  /\ iiifOutput' = [NoIiifLayout EXCEPT !.outcome = error]
                  /\ UNCHANGED <<iiifDone, iiifItems>>
             ELSE /\ iiifItems' = items
                  /\ iiifDone' = iiifDone + 1
                  /\ IF iiifDone + 1 = Len(entries(iiifArray))
                       THEN /\ iiifPc' = "done"
                            /\ iiifOutput' = IiifLayout(items)
                       ELSE /\ iiifPc' = "items"
                            /\ UNCHANGED iiifOutput
  /\ UNCHANGED <<iiifType, iiifOptions>>

NextIiif ==
  \/ ArrayToIiif
       /\ UNCHANGED <<asmVars, resVars, artVars, tileVars, layVars, serVars,
                 rndVars,
                 genVars,
                 tiffVars,
                 fetchVars,
                 ownVars>>
  \/ (\E fail \in {"none", "source", "thumbnail"} : ItemToIiif(fail))
       /\ UNCHANGED <<asmVars, resVars, artVars, tileVars, layVars, serVars,
                 rndVars,
                 genVars,
                 tiffVars,
                 fetchVars,
                 ownVars>>


(***************************************************************************)
(* Layout.randomFromIiif                                                   *)
(***************************************************************************)
(* getJsonResource: the parsed IIIF object, or a failure to obtain it *)
getJsonResource(iiif, loaded) ==
  IF loaded THEN <<"none", iiif>> ELSE <<"ResourceUnavailable", iiif>>

(* a Canvas as Art.toIiifCanvas writes it, with or without width/height *)
CanvasOf(name, cached) ==
  [type |-> "Canvas", id |-> name,
   body |-> [outcome |-> "ok", id |-> Location, width |-> 0],
   thumbnail |-> Absent, metadata |-> Absent,
   width |-> IF cached THEN MaxWidth ELSE 0]
CanvasListsOf(m) ==
  UNION {{[c \in 1..n |-> CanvasOf(<<ToString(m), ToString(c)>>, cached[c])] :
            cached \in [1..n -> BOOLEAN]} : n \in 0..MaxCanvases}
ManifestsOf(m) == {[type |-> "Manifest", items |-> l] : l \in CanvasListsOf(m)}
RECURSIVE ManifestLists(_)
ManifestLists(n) ==
  IF n = 0 THEN {<<>>}
  ELSE {Append(l, m) : l \in ManifestLists(n - 1), m \in ManifestsOf(n)}
IiifObjects ==
  ManifestsOf(1)
  \cup {[type |-> "Collection", items |-> l] :
          l \in UNION {ManifestLists(n) : n \in 0..MaxManifests}}
  \cup {[type |-> "Canvas", items |-> <<>>]}
NoIiifObject == [type |-> "none", items |-> <<>>]

(* the Canvases in the order the loops of randomFromIiif visit them *)
RECURSIVE canvasesFrom(_, _)
canvasesFrom(collection, m) ==
  IF m > Len(collection.items) THEN <<>>
  ELSE collection.items[m].items \o canvasesFrom(collection, m + 1)
canvases(iiif) ==
  IF iiif.type = "Collection" THEN canvasesFrom(iiif, 1) ELSE iiif.items

(* the second argument randomFromIiif gives Art.fromIiif *)
FromIiifArgument == "{output:'artObject'}"

NoRndLayout == [made |-> FALSE, artList |-> <<>>, thumbnailSize |-> 0]

(* the rest of randomFromIiif once the pool is read: the cached width of   *)
(* the first item that has one, else the probed width of artList[0];       *)
(* yields <<error, layout>>                                                *)
LayoutFromPool(pool, probed) ==
  LET cached == {i \in 1..Len(pool) : pool[i].width # 0} IN
  IF cached # {}
    THEN <<"none",
           [made |-> TRUE, artList |-> pool,
            thumbnailSize |->
              pool[CHOOSE i \in cached : \A j \in cached : i <= j].width]>>
  ELSE IF pool = <<>> THEN <<"TypeError", NoRndLayout>>
  ELSE <<"none", [made |-> TRUE, artList |-> pool, thumbnailSize |-> probed]>>

RndIdle ==
  /\ iiifObject = NoIiifObject /\ rndPc = "off" /\ rndErr = "none"
  /\ artList = <<>> /\ rndLayout = NoRndLayout

InitRnd ==
  /\ iiifObject \in IiifObjects /\ rndPc = "start" /\ rndErr = "none"
  /\ artList = <<>> /\ rndLayout = NoRndLayout

(* Layout.randomFromIiif(iiif, options) up to its first Art.fromIiif *)
RandomFromIiif(loaded, probed) ==
  /\ rndPc = "start"
  /\ LET json == getJsonResource(iiifObject, loaded)
         made == LayoutFromPool(<<>>, probed)
     IN IF json[1] # "none"
          THEN rndPc' = "failed" /\ rndErr' = json[1] /\ UNCHANGED rndLayout
        ELSE IF json[2].type \notin {"Collection", "Manifest"}
          THEN rndPc' = "failed" /\ rndErr' = "InvalidIiif"
               /\ UNCHANGED rndLayout
        ELSE IF canvases(json[2]) # <<>>
          THEN rndPc' = "canvases" /\ UNCHANGED <<rndErr, rndLayout>>
        ELSE /\ rndPc' = IF made[1] = "none" THEN "done" ELSE "failed"
             /\ rndErr' = made[1]
             /\ rndLayout' = made[2]
  /\ UNCHANGED <<iiifObject, artList>>

(* const artObject = await Art.fromIiif(canvas, {output:'artObject'});     *)
(* artList.push(artObject) for the next Canvas, and after the last one the *)
(* rest of randomFromIiif                                                  *)
CanvasFromIiif(loaded, probed) ==
  /\ rndPc = "canvases"
  /\ LET next == canvases(iiifObject)[Len(artList) + 1]
         json == getJsonResource(next, loaded)
         r == IF json[1] # "none" THEN <<json[1], NoArt>>
              ELSE fromIiif(json[2], FromIiifArgument)
         pool == Append(artList,
                        [id |-> next.id, art |-> r[2], width |-> next.width])
         made == LayoutFromPool(pool, probed)
     IN IF r[1] # "none"
          THEN rndPc' = "failed" /\ rndErr' = r[1]
               /\ UNCHANGED <<artList, rndLayout>>
        ELSE IF Len(pool) < Len(canvases(iiifObject))
          THEN rndPc' = "canvases" /\ artList' = pool
               /\ UNCHANGED <<rndErr, rndLayout>>
        ELSE /\ artList' = pool
             /\ rndPc' = IF made[1] = "none" THEN "done" ELSE "failed"
             /\ rndErr' = made[1]
             /\ rndLayout' = made[2]
  /\ UNCHANGED iiifObject

NextRnd ==
  \/ (\E loaded \in BOOLEAN, probed \in Widths : RandomFromIiif(loaded, probed))
       /\ UNCHANGED <<asmVars, resVars, artVars, tileVars, layVars, serVars,
                      gridVars,
                 genVars,
                 tiffVars,
                 fetchVars,
                 ownVars>>
  \/ (\E loaded \in BOOLEAN, probed \in Widths : CanvasFromIiif(loaded, probed))
       /\ UNCHANGED <<asmVars, resVars, artVars, tileVars, layVars, serVars,
                      gridVars,
                 genVars,
                 tiffVars,
                 fetchVars,
                 ownVars>>

(***************************************************************************)
(* Layout.generateImage                                                    *)
(***************************************************************************)
(* the fields of a Layout other than its image *)
LayoutFields ==
  [numRows : 1..MaxRows, numCols : 1..MaxCols, thumbnailSize : 1..MaxSize]
NoLayoutFields == [numRows |-> 0, numCols |-> 0, thumbnailSize |-> 0]

(* this.image: absent, or a LayoutImage with or without its source *)
NoImage == [present |-> FALSE, source |-> FALSE]
NewLayoutImage == [present |-> TRUE, source |-> FALSE]

(* GenerateImageOptions: outputType given or not, saveFile *)
GenOptions == [outputType : BOOLEAN, saveFile : BOOLEAN]
NoGenOptions == [outputType |-> FALSE, saveFile |-> FALSE]

HasImageNever == FALSE
(* if (this.image) *)
HasImage == image.present

GenIdle ==
  /\ genLayout = NoLayoutFields /\ image = NoImage
  /\ genOptions = NoGenOptions /\ composing = FALSE /\ genCalls = 0
  /\ genErr = "off" /\ genStarted = 0 /\ genSaved = 0

InitGen ==
  /\ genLayout \in LayoutFields /\ image = NoImage
  /\ genOptions = NoGenOptions /\ composing = FALSE /\ genCalls = 0
  /\ genErr = "none" /\ genStarted = 0 /\ genSaved = 0

(* layout.generateImage(options) up to its await *)
GenerateImage(options) ==
  /\ genCalls < MaxGenCalls
  /\ genCalls' = genCalls + 1
  /\ IF HasImage
       THEN /\ genErr' = "StateConflict"
            /\ UNCHANGED <<image, genOptions, composing, genStarted>>
     ELSE IF ~options.outputType
       THEN /\ genErr' = "InputError"
            /\ UNCHANGED <<image, genOptions, composing, genStarted>>
     ELSE /\ image' = NewLayoutImage
          /\ genOptions' = options
          /\ composing' = TRUE
          /\ genStarted' = genStarted + 1
          /\ genErr' = "none"
  /\ UNCHANGED <<genLayout, genSaved>>

(* this.image.generateImage(options) settles: on success the source is     *)
(* assigned and, with saveFile, the layout JSON is written; generated and  *)
(* saved tell whether those steps succeed                                  *)
ImageSettles(generated, saved) ==
  /\ composing
  /\ composing' = FALSE
  /\ IF ~generated
       THEN /\ genErr' = "GenerateFailed"
            /\ UNCHANGED <<image, genSaved>>
     ELSE /\ image' = [image EXCEPT !.source = TRUE]
          /\ IF ~genOptions.saveFile
               THEN genErr' = "none" /\ UNCHANGED genSaved
             ELSE IF saved
               THEN genErr' = "none" /\ genSaved' = genSaved + 1
             ELSE genErr' = "SaveFailed" /\ UNCHANGED genSaved
  /\ UNCHANGED <<genLayout, genOptions, genCalls, genStarted>>

NextGen ==
  \/ (\E options \in GenOptions : GenerateImage(options))
       /\ UNCHANGED <<asmVars, resVars, artVars, tileVars, layVars, serVars,
                      gridVars, rndVars,
                 tiffVars,
                 fetchVars,
                 ownVars>>
  \/ (\E generated \in BOOLEAN, saved \in BOOLEAN :
        ImageSettles(generated, saved))
       /\ UNCHANGED <<asmVars, resVars, artVars, tileVars, layVars, serVars,
                      gridVars, rndVars,
                 tiffVars,
                 fetchVars,
                 ownVars>>

(***************************************************************************)
(* ImageResource._tiffWithPyramids                                         *)
(***************************************************************************)
(* this.dimensions.width > 256 ? 256 : width - (width % 16), and the same  *)
(* for the height                                                          *)
MinimumTile(d) == IF d > 256 THEN 256 ELSE d - (d % 16)

TiffIdle ==
  /\ dimensions = [width |-> 0, height |-> 0] /\ tiffPc = "off"
  /\ tileWidth = 0 /\ tileHeight = 0

InitTiff ==
  /\ dimensions \in [width : 1..MaxTileDim, height : 1..MaxTileDim]
  /\ tiffPc = "start" /\ tileWidth = 0 /\ tileHeight = 0

(* the tileWidth and tileHeight given to sharp(...).tiff *)
TiffWithPyramids ==
  /\ tiffPc = "start"
  /\ tileWidth' = MinimumTile(dimensions.width)
  /\ tileHeight' = MinimumTile(dimensions.height)
  /\ tiffPc' = "done"
  /\ UNCHANGED dimensions

NextTiff ==
  TiffWithPyramids
    /\ UNCHANGED <<asmVars, resVars, artVars, tileVars, layVars, serVars,
                   gridVars, rndVars, genVars,
                 fetchVars,
                 ownVars>>

(***************************************************************************)
(* getResourceBuffer inside the compositor's loops                         *)
(***************************************************************************)
(* what the network does with one request: it answers with headers and     *)
(* body, refuses, never answers, or answers and never delivers the body    *)
Networks == {"responds", "refused", "noResponse", "noBody"}

FetchIdle == fetchPhase = "idle" /\ timeout = FALSE /\ network = "none"

(* const timeout = setTimeout(() => controller.abort(), 5000);             *)
(* const origImage = await fetch(filePathOrUrl, {signal})                  *)
FetchStarts(net) ==
  /\ apc = "loop" /\ variant = "probe"
  /\ fetchPhase = "idle"
  /\ fetchPhase' = "response" /\ timeout' = TRUE /\ network' = net
  /\ UNCHANGED asmVars

(* the response arrives: clearTimeout(timeout), then                       *)
(* await origImage.arrayBuffer()                                           *)
ResponseArrives ==
  /\ fetchPhase = "response" /\ network \in {"responds", "noBody"}
  /\ fetchPhase' = "body" /\ timeout' = FALSE
  /\ UNCHANGED <<network, asmVars>>

(* fetch rejects; the cell's catch block logs the error *)
FetchRejected ==
  /\ fetchPhase = "response" /\ network = "refused"
  /\ LoadCell(FALSE)
  /\ fetchPhase' = "idle" /\ timeout' = FALSE /\ network' = "none"

(* the timer fires while fetch is awaited: controller.abort() rejects it *)
TimeoutFires ==
  /\ fetchPhase = "response" /\ timeout
  /\ LoadCell(FALSE)
  /\ fetchPhase' = "idle" /\ timeout' = FALSE /\ network' = "none"

(* the body arrives: Buffer.from(imageBody) is the cell's image *)
BodyArrives ==
  /\ fetchPhase = "body" /\ network = "responds"
  /\ LoadCell(TRUE)
  /\ fetchPhase' = "idle" /\ network' = "none"
  /\ UNCHANGED timeout

NextFetch ==
  \/ (\E ok \in BOOLEAN : ProbeSample(ok))
       /\ UNCHANGED <<resVars, artVars, extVars>>
  \/ (\E net \in Networks : FetchStarts(net))
       /\ UNCHANGED <<resVars, artVars, tileVars, layVars, serVars, gridVars,
                      rndVars, genVars, tiffVars, ownVars>>
  \/ ResponseArrives
       /\ UNCHANGED <<resVars, artVars, tileVars, layVars, serVars, gridVars,
                      rndVars, genVars, tiffVars, ownVars>>
  \/ FetchRejected
       /\ UNCHANGED <<resVars, artVars, tileVars, layVars, serVars, gridVars,
                      rndVars, genVars, tiffVars, ownVars>>
  \/ TimeoutFires
       /\ UNCHANGED <<resVars, artVars, tileVars, layVars, serVars, gridVars,
                      rndVars, genVars, tiffVars, ownVars>>
  \/ BodyArrives
       /\ UNCHANGED <<resVars, artVars, tileVars, layVars, serVars, gridVars,
                      rndVars, genVars, tiffVars, ownVars>>
  \/ Composite /\ UNCHANGED <<resVars, artVars, extVars>>

(***************************************************************************)
(* Ownership of ImageResources                                             *)
(***************************************************************************)
(* arts[a] is the a-th Art constructed: the ImageResource in its source    *)
(* slot and in each thumbnail slot (0 = no entry); partOf[r] is the Art    *)
(* the r-th ImageResource was constructed with                             *)
NoThumbnails == [w \in Widths |-> 0]

OwnIdle == arts = <<>> /\ partOf = <<>>

InitOwn == arts = <<>> /\ partOf = <<>>

(* the place of w among the widths K in the order Object.keys lists them *)
Position(K, w) == Cardinality({v \in K : v <= w})

(* new Art({source: <string or URL>, thumbnails: {}}): setArtSource makes  *)
(* the source's ImageResource with art: this                               *)
NewArt ==
  /\ Len(arts) < MaxArts /\ Len(partOf) < MaxResources
  /\ arts' = Append(arts, [source |-> Len(partOf) + 1,
                           thumbnails |-> NoThumbnails])
  /\ partOf' = Append(partOf, Len(arts) + 1)

(* new Art(options) where options.source is the ImageResource of Art b and *)
(* options.thumbnails has the widths K: the thumbnails get new             *)
(* ImageResources with art: this, the source is assigned as it is          *)
NewArtFromResource(b, K) ==
  /\ Len(arts) < MaxArts /\ b \in 1..Len(arts)
  /\ Len(partOf) + Cardinality(K) <= MaxResources
  /\ arts' = Append(arts,
       [source |-> arts[b].source,
        thumbnails |-> [w \in Widths |->
           IF w \in K THEN Len(partOf) + Position(K, w) ELSE 0]])
  /\ partOf' = partOf \o [n \in 1..Cardinality(K) |-> Len(arts) + 1]

(* art.createThumbnail(w): this.source.generateThumbnail makes the new     *)
(* ImageResource with art: this.partOf, the owner of the source            *)
OwnCreateThumbnail(a, w) ==
  /\ a \in 1..Len(arts) /\ Len(partOf) < MaxResources
  /\ arts[a].thumbnails[w] = 0
  /\ arts' = [arts EXCEPT ![a].thumbnails[w] = Len(partOf) + 1]
  /\ partOf' = Append(partOf, partOf[arts[a].source])

(* art.addThumbnail(w, path): a new ImageResource with art: this replaces  *)
(* whatever the slot held                                                  *)
OwnAddThumbnail(a, w) ==
  /\ a \in 1..Len(arts) /\ Len(partOf) < MaxResources
  /\ arts' = [arts EXCEPT ![a].thumbnails[w] = Len(partOf) + 1]
  /\ partOf' = Append(partOf, a)

NextOwn ==
  \/ NewArt
       /\ UNCHANGED <<asmVars, resVars, artVars, tileVars, layVars, serVars,
                      gridVars, rndVars, genVars, tiffVars, fetchVars>>
  \/ (\E b \in 1..MaxArts, K \in SUBSET Widths : NewArtFromResource(b, K))
       /\ UNCHANGED <<asmVars, resVars, artVars, tileVars, layVars, serVars,
                      gridVars, rndVars, genVars, tiffVars, fetchVars>>
  \/ (\E a \in 1..MaxArts, w \in Widths : OwnCreateThumbnail(a, w))
       /\ UNCHANGED <<asmVars, resVars, artVars, tileVars, layVars, serVars,
                      gridVars, rndVars, genVars, tiffVars, fetchVars>>
  \/ (\E a \in 1..MaxArts, w \in Widths : OwnAddThumbnail(a, w))
       /\ UNCHANGED <<asmVars, resVars, artVars, tileVars, layVars, serVars,
                      gridVars, rndVars, genVars, tiffVars, fetchVars>>

(***************************************************************************)
(* Specifications                                                          *)
(***************************************************************************)
ExtIdle == TileIdle /\ LayIdle /\ SerIdle /\ GridIdle /\ RndIdle /\ GenIdle /\ TiffIdle /\ FetchIdle /\ OwnIdle
CoreIdle == AsmIdle /\ ResIdle /\ ArtIdle

(* one run of the compositor on one layout *)
StartAsm == InitAsm /\ ResIdle /\ ArtIdle /\ ExtIdle
SpecAsm == StartAsm /\ [][NextAsm]_vars

(* one ImageResource used by concurrent callers *)
StartRes == InitResWith(MaxTasks) /\ AsmIdle /\ ArtIdle /\ ExtIdle
SpecRes == StartRes /\ [][NextRes]_vars

(* one ImageResource used by one caller that awaits each call *)
StartResSeq == InitResWith(1) /\ AsmIdle /\ ArtIdle /\ ExtIdle
SpecResSeq == StartResSeq /\ [][NextRes]_vars

(* one Art item and the calls made on it *)
StartArt == InitArt /\ AsmIdle /\ ResIdle /\ ExtIdle
SpecArt == StartArt /\ [][NextArt]_vars

(* one call of minimumTileSize *)
StartTile == InitTile /\ CoreIdle /\ LayIdle /\ SerIdle /\ GridIdle
  /\ TiffIdle
  /\ GenIdle
  /\ RndIdle
  /\ FetchIdle
  /\ OwnIdle
SpecTile == StartTile /\ [][NextTile]_vars

(* one Layout constructed from options or from a flat layout object *)
StartLayout == InitLayout /\ CoreIdle /\ TileIdle /\ SerIdle /\ GridIdle
  /\ TiffIdle
  /\ GenIdle
  /\ RndIdle
  /\ FetchIdle
  /\ OwnIdle
SpecLayout == StartLayout /\ [][NextLayout]_vars

(* the same under fair random choice: while an unused index remains, the   *)
(* do-while eventually draws one                                           *)
SpecLayoutFair == StartLayout /\ [][NextLayout]_vars /\ WF_vars(NextLayout)

(* one Art built from a flat object, then serialized *)
StartSer == InitSer /\ CoreIdle /\ TileIdle /\ LayIdle /\ GridIdle
  /\ TiffIdle
  /\ GenIdle
  /\ RndIdle
  /\ FetchIdle
  /\ OwnIdle
SpecSer == StartSer /\ [][NextSer]_vars

(* one call of arrayToIiif on a Layout whose array is filled *)
StartIiif == InitIiif /\ CoreIdle /\ TileIdle /\ LayIdle /\ SerIdle
  /\ TiffIdle
  /\ GenIdle
  /\ RndIdle
  /\ FetchIdle
  /\ OwnIdle
SpecIiif == StartIiif /\ [][NextIiif]_vars

(* one call of randomFromIiif *)
StartRnd == InitRnd /\ CoreIdle /\ TileIdle /\ LayIdle /\ SerIdle /\ GridIdle
  /\ TiffIdle
  /\ GenIdle
  /\ FetchIdle
  /\ OwnIdle
SpecRnd == StartRnd /\ [][NextRnd]_vars

(* one Layout and the generateImage calls made on it *)
StartGen ==
  InitGen /\ CoreIdle /\ TileIdle /\ LayIdle /\ SerIdle /\ GridIdle /\ RndIdle
    /\ TiffIdle
  /\ FetchIdle
  /\ OwnIdle
SpecGen == StartGen /\ [][NextGen]_vars

(* one pyramidal tiled output of one image *)
StartTiff ==
  InitTiff /\ CoreIdle /\ TileIdle /\ LayIdle /\ SerIdle /\ GridIdle /\ RndIdle
    /\ GenIdle
  /\ FetchIdle
  /\ OwnIdle
SpecTiff == StartTiff /\ [][NextTiff]_vars

(* one run of the compositor whose cells are fetched over the network; the *)
(* event loop runs every callback that is ready                            *)
StartFetch == InitAsm /\ variant = "probe" /\ ResIdle /\ ArtIdle /\ ExtIdle
SpecFetch == StartFetch /\ [][NextFetch]_vars /\ WF_vars(NextFetch)

(* the Art instances a program constructs and their thumbnail operations *)
StartOwn ==
  /\ InitOwn /\ CoreIdle /\ TileIdle /\ LayIdle /\ SerIdle /\ GridIdle
  /\ RndIdle /\ GenIdle /\ TiffIdle /\ FetchIdle
SpecOwn == StartOwn /\ [][NextOwn]_vars

(***************************************************************************)
(* Properties                                                              *)
(***************************************************************************)
RowMajor(cell) == cell[1] * numCols + cell[2]
OwnBlock(cell) ==
  [input |-> cell, top |-> cell[1] * imageHeight, left |-> cell[2] * imageWidth]
Composited == compositeCalls = 1
HasBlock(b) == \E i \in 1..Len(canvas.blocks) : canvas.blocks[i] = b

(* C1: when every cell's load succeeds, the compositor receives a canvas   *)
(* of (cellWidth*C, cellHeight*R) and exactly one block per cell, the      *)
(* block of cell (r, c) at top = r*cellHeight, left = c*cellWidth.         *)
C1_GridPlacement ==
  (Composited /\ \A c \in Cells : cellSt[c] = "ok") =>
    /\ canvas.width = imageWidth * numCols
    /\ canvas.height = imageHeight * numRows
    /\ Len(canvas.blocks) = Cardinality(Cells)
    /\ \A c \in Cells : HasBlock(OwnBlock(c))

(* C2: for every completion order of the concurrently dispatched loads,    *)
(* the block list is in row-major cell order and every block carries the   *)
(* offsets of its own cell.                                                *)
C2_OrderIndependent ==
  (variant = "concurrent" /\ Composited) =>
    /\ \A i \in 1..Len(canvas.blocks) :
         canvas.blocks[i] = OwnBlock(canvas.blocks[i].input)
    /\ \A i, j \in 1..Len(canvas.blocks) :
         i < j => RowMajor(canvas.blocks[i].input)
                    < RowMajor(canvas.blocks[j].input)

(* C3: the compositing primitive runs at most once per run, and only when  *)
(* every cell's load has finished (the done counter equals the number of   *)
(* cells).                                                                 *)
C3_CompositeAfterJoin ==
  /\ compositeCalls <= 1
  /\ compositeCalls >= 1 =>
       /\ totalDone = Cardinality(Cells)
       /\ \A c \in Cells : cellSt[c] \in {"ok", "failed"}
C3_Witness ==
  /\ Composited /\ variant = "concurrent"
  /\ \E c \in Cells : cellSt[c] = "failed"
  /\ \E c \in Cells : cellSt[c] = "ok"

(* C4: a load failure of any one cell, the probed cell included, never     *)
(* aborts the run; the failed cell has no block and every cell that loaded *)
(* has its block at its own offset.                                        *)
C4_FailureIsolated ==
  /\ apc # "aborted"
  /\ Composited =>
       \A c \in Cells :
         /\ cellSt[c] = "ok" => HasBlock(OwnBlock(c))
         /\ cellSt[c] = "failed" =>
              ~\E i \in 1..Len(canvas.blocks) : canvas.blocks[i].input = c

(* C5: once a loadResource call has returned a buffer, every later call    *)
(* returns the same buffer and no further fetch is made; a resource built  *)
(* with an initial buffer never fetches.                                   *)
C5_Memoized ==
  /\ firstReturn # NoReturn =>
       /\ lastReturn = firstReturn
       /\ fetchCount = firstReturn.fetches
  /\ hadInitial => fetchCount = 0
C5_Witness ==
  /\ ~hadInitial /\ calls >= 2 /\ BagCardinality(pending) = 0
  /\ lastResult = Result([op |-> "loadResource", opt |-> FALSE], "ok", Fetched(1))
  /\ firstReturn = Return(Fetched(1)) /\ fetchCount = 1

(* C6: under any interleaving of tasks that load the same ImageResource,   *)
(* its buffer field is assigned at most once.                              *)
C6_SingleWrite == bufferWrites <= 1

(* C7: no operation assigns a new id to an existing ImageResource.         *)
C7_IdImmutable == [][resId' = resId]_vars
C7_Witness ==
  /\ lastResult.op = "toIiifContentResource" /\ lastResult.opt
  /\ lastResult.outcome = "ok"
  /\ resId.marker /\ resId.form = "rel" /\ resBuffer # NoBuffer

(* C8: thumbnailExists(w) holds exactly for the widths of the construction *)
(* input and the widths for which a create or add has completed; no width  *)
(* is ever removed.                                                        *)
C8_ThumbnailWidths ==
  artSt = "built" =>
    \A w \in 0..MaxWidth :
      thumbnailExists(w) <=> (w \in initWidths \/ w \in completed)
C8_Witness ==
  /\ artSt = "built" /\ initWidths # {}
  /\ \E w \in completed \ initWidths :
       thumbnailExists(w) /\ thumbnails[w].id = MemoryMarker

(* C9: createThumbnail for a width already in the map fails with a         *)
(* StateConflict, starts no generation (the resize codec is not called)    *)
(* and leaves the map as it was.                                           *)
C9_ExistingWidthConflict ==
  [][(artCalls' # artCalls /\ lastCall'.op = "createThumbnail"
        /\ lastCall'.existed)
       => /\ lastCall'.result = "StateConflict"
          /\ thumbnails' = thumbnails
          /\ resizeCalls' = resizeCalls
          /\ inflight' = inflight]_vars
C9_Witness ==
  /\ lastCall.op = "createThumbnail" /\ lastCall.existed
  /\ lastCall.result = "StateConflict"

(* C10: constructing an Art from a buffer source succeeds exactly when     *)
(* metadata.title is set, and then sourceName is the title and the source  *)
(* resource holds the buffer.                                              *)
C10_BufferSource ==
  (artSt # "new" /\ artInput.source = "buffer") =>
    /\ (artSt = "built") <=> artInput.title
    /\ artSt = "built" =>
         /\ sourceName = "title" /\ artSource.buffer
         /\ Truthy(artSource.id)

(* ---- Layout construction ---- *)
LayoutDone == layPc \in {"built", "failed"}
ByRatio ==
  /\ layIn.kind = "options" /\ ~layIn.hasArray
  /\ ~(layIn.numRows # 0 /\ layIn.numCols # 0)
Positions ==
  {rc \in (1..Len(layArray)) \X (1..(MaxPool + MaxCols + 1)) :
     rc[2] <= Len(layArray[rc[1]])}
Occurrences(i) ==
  Cardinality({rc \in Positions : layArray[rc[1]][rc[2]] = i})

(* C11: construction from options fails, and no layout is produced, when a *)
(* prebuilt array comes with numRows, numCols or ratio, when a pool comes  *)
(* with a ratio and a row or column count, and when neither an array nor a *)
(* pool is given.                                                          *)
C11_ConflictingOptions ==
  LET o == layIn
      conflict ==
        \/ o.hasArray /\ (o.numRows # 0 \/ o.numCols # 0 \/ o.ratio # NoRatio)
        \/ o.hasArtList /\ o.ratio # NoRatio
             /\ (o.numRows # 0 \/ o.numCols # 0)
        \/ ~o.hasArray /\ ~o.hasArtList
  IN (o.kind = "options" /\ conflict) =>
       /\ layPc \in {"new", "failed"}
       /\ layArray = <<>> /\ layNumRows = 0 /\ layNumCols = 0
C11_Witness ==
  /\ layPc = "failed" /\ layErr = "CountsWithRatio"
  /\ layIn.hasArtList /\ layIn.numRows # 0 /\ layIn.numCols = 0

(* C12: random placement by ratio puts every pool index into the grid      *)
(* exactly once.                                                           *)
C12_EachItemOnce ==
  (layPc = "built" /\ ByRatio) =>
    \A i \in 0..(layIn.artList - 1) : Occurrences(i) = 1
C12_Witness ==
  /\ layPc = "built" /\ ByRatio /\ layIn.ratio # NoRatio
  /\ layIn.artList = MaxPool /\ Len(layArray) >= 2

(* C13: for N >= 1 and a ratio, the stored counts satisfy                  *)
(* numRows*numCols >= N and numRows*numCols - N < numCols.                 *)
C13_NoWastedRow ==
  (layPc = "built" /\ ByRatio /\ layIn.artList >= 1) =>
    /\ layNumRows * layNumCols >= layIn.artList
    /\ layNumRows * layNumCols - layIn.artList < layNumCols

(* C14: every built layout has numRows = array.length,                     *)
(* numCols = array[0].length and numCols cells in every row.               *)
C14_Rectangular ==
  layPc = "built" =>
    /\ layNumRows = Len(layArray)
    /\ layNumCols = Len(layArray[1])
    /\ \A r \in 1..Len(layArray) : Len(layArray[r]) = layNumCols

(* C15: for every d >= 16, minimumTileSize(d) is at most 256 and is the     *)
(* 16-aligned base d - d mod 16 divided by a power of two.                 *)
C15_TileSizeBounded ==
  tilePc = "done" =>
    /\ tileSize <= 256
    /\ \E k \in 0..10 :
         tileSize * (2 ^ k) = widthOrHeight - (widthOrHeight % 16)

(* ---- flat objects and IIIF ---- *)
ValidArtObject(o) ==
  /\ o.hasSource /\ o.hasMetadata
  /\ \A k \in DOMAIN o.thumbnails : ~k.unit
MemoryOnly(r) == r.buffer /\ r.id.marker
HoldsMemoryOnly(a) ==
  \/ MemoryOnly(a.source)
  \/ \E size \in DOMAIN a.thumbnails : MemoryOnly(a.thumbnails[size])
Flattened == serPc = "done" /\ flatOut # NoFlatOutput

C17_MemoryOnlyNotFlattened ==
  (Flattened /\ HoldsMemoryOnly(art)) =>
    /\ flatOut.outcome = "SerializationError"
    /\ flatOut.value = NoArtObject

(* C20: the thumbnail array of a Canvas or Manifest made from an Art has   *)
(* one content resource per entry of the thumbnail map, in strictly        *)
(* descending width order.                                                 *)
C20_ThumbnailsDescending ==
  (serPc = "done" /\ iiifOut.outcome = "ok"
     /\ iiifOut.value.thumbnail.present) =>
    LET items == iiifOut.value.thumbnail.items IN
    /\ Len(items) = Cardinality(DOMAIN art.thumbnails)
    /\ \A size \in DOMAIN art.thumbnails :
         \E i \in 1..Len(items) :
           /\ items[i].width = size.width
           /\ items[i].id = validatePath(art.thumbnails[size].id)
    /\ \A i \in 1..(Len(items) - 1) : items[i].width > items[i + 1].width
C20_Witness ==
  /\ serPc = "done" /\ iiifOut.outcome = "ok" /\ iiifOut.kind = "Manifest"
  /\ Len(iiifOut.value.thumbnail.items) >= 2
  /\ serOps >= 1
  /\ iiifOut.value.thumbnail.items[1].id.marker

(* ---- Layout.arrayToIiif ---- *)
RECURSIVE CellsBefore(_, _)
CellsBefore(array, r) ==
  IF r <= 1 THEN 0 ELSE CellsBefore(array, r - 1) + Len(array[r - 1])
CellCount(array) == CellsBefore(array, Len(array) + 1)
Capitalized(key) ==
  <<CASE key[1] = "t" -> "T" [] key[1] = "c" -> "C" [] key[1] = "D" -> "D",
    key[2]>>

(* C18: when a layout is projected to a Manifest with an exclude list that *)
(* contains "thumbnails", no Canvas of the result carries a thumbnail      *)
(* field, and every Canvas carries a metadata array with one label/value   *)
(* pair per metadata field of its Art, the label being the field name with *)
(* its first letter in upper case.                                         *)
C18_ExcludeThumbnails ==
  (iiifPc = "done" /\ iiifType = "Manifest"
     /\ "thumbnails" \in iiifOptions.exclude
     /\ "metadata" \notin iiifOptions.exclude) =>
    \A r \in 1..Len(iiifArray) : \A c \in 1..Len(iiifArray[r]) :
      LET item == iiifOutput.items[CellsBefore(iiifArray, r) + c]
          fields == iiifArray[r][c].art.metadata
      IN /\ ~item.thumbnail.present
         /\ item.metadata.present
         /\ Len(item.metadata.items) = Len(fields)
         /\ \A i \in 1..Len(fields) :
              /\ item.metadata.items[i].label = Capitalized(fields[i].key)
              /\ item.metadata.items[i].value = fields[i].value

(* C19: arrayToIiif returns one item per cell of the array, in row-major   *)
(* order; the items are Canvases when a Manifest is asked for and          *)
(* Manifests when a Collection is asked for; any other kind is an error    *)
(* and no output is produced.                                              *)
C19_RowMajorItems ==
  /\ iiifPc = "done" =>
       /\ iiifType \in {"Manifest", "Collection"}
       /\ iiifOutput.outcome = "ok"
       /\ iiifOutput.type = iiifType
       /\ Len(iiifOutput.items) = CellCount(iiifArray)
       /\ \A r \in 1..Len(iiifArray) : \A c \in 1..Len(iiifArray[r]) :
            LET item == iiifOutput.items[CellsBefore(iiifArray, r) + c]
                cell == iiifArray[r][c]
            IN /\ item.type = (IF iiifType = "Manifest" THEN "Canvas"
                                                        ELSE "Manifest")
               /\ cell.id # <<>> =>
                    item.id = (IF iiifType = "Manifest"
                                 THEN CellId(r, c) \o <<"/canvas">>
                                 ELSE CellId(r, c))
  /\ (iiifType \notin {"Manifest", "Collection"} /\ iiifPc # "start") =>
       /\ iiifPc = "failed"
       /\ iiifOutput = [NoIiifLayout EXCEPT !.outcome = "InvalidType"]
       /\ iiifItems = <<>>
C19_Witness ==
  /\ iiifPc = "done" /\ iiifType = "Collection"
  /\ Len(iiifArray) = 2 /\ Len(iiifArray[1]) = 2 /\ Len(iiifArray[2]) >= 1
  /\ iiifArray[1][1].id # <<>>
  /\ Len(iiifOutput.items) >= 3

(* ---- third group of properties ---- *)
(* C21: toIiifContentResource on a resource that is an unsaved in-memory   *)
(* buffer fails unless a save directory is supplied, and a content         *)
(* resource whose id is the in-memory marker is never returned.            *)
C21_NoMemoryMarkerId ==
  (lastResult.op = "toIiifContentResource" /\ hadInitial) =>
    /\ (resId.marker /\ ~lastResult.opt) => lastResult.outcome = "error"
    /\ lastResult.outcome = "ok" => ~lastResult.value.marker

(* C26: converting an Art with flat metadata to a Canvas and back yields   *)
(* an Art with the same metadata keys and values and the same thumbnail    *)
(* widths.                                                                 *)
C26_CanvasRoundTrip ==
  (serPc = "back" /\ iiifOut.kind = "Canvas" /\ iiifOut.value.metadata.present
     /\ iiifOut.value.thumbnail.present) =>
    /\ fromErr = "none"
    /\ DOMAIN fromArt.thumbnails = DOMAIN art.thumbnails
    /\ Len(fromArt.metadata) = Len(art.metadata)
    /\ \A i \in 1..Len(art.metadata) :
         /\ fromArt.metadata[i].key = art.metadata[i].key
         /\ fromArt.metadata[i].value = art.metadata[i].value

(* C22: reconstructing a layout from a Manifest or Collection that        *)
(* references K >= 1 Canvases succeeds (when every JSON resource can be    *)
(* read) and yields a layout whose pool holds the Art of each referenced   *)
(* Canvas exactly once and whose thumbnail width is the cached or probed   *)
(* width of one item.                                                      *)
C22_LayoutFromIiif ==
  (iiifObject.type \in {"Manifest", "Collection"}
     /\ canvases(iiifObject) # <<>>
     /\ rndPc \in {"done", "failed"} /\ rndErr # "ResourceUnavailable") =>
    /\ rndPc = "done" /\ rndLayout.made
    /\ Len(rndLayout.artList) = Len(canvases(iiifObject))
    /\ \A i \in 1..Len(canvases(iiifObject)) :
         Cardinality({j \in 1..Len(rndLayout.artList) :
            rndLayout.artList[j].id = canvases(iiifObject)[i].id}) = 1
    /\ rndLayout.thumbnailSize \in Widths

C28_FailureLeavesNoImage ==
  (genErr \in {"GenerateFailed", "SaveFailed"} /\ ~composing) =>
    ~image.present

(* C27: for every image width and height d >= 1, the tile width and the   *)
(* tile height passed to the tiling collaborator are at least 1 and at     *)
(* most 256.                                                               *)
C27_TileBounds ==
  tiffPc = "done" =>
    /\ tileWidth >= 1 /\ tileWidth <= 256
    /\ tileHeight >= 1 /\ tileHeight <= 256

(* C24: a fetch that never completes is aborted by its timeout and        *)
(* surfaces as a load failure of its cell only, so that once the loops     *)
(* have started, assemble eventually composites.                           *)
C24_FetchTimesOut == (apc = "loop") ~> (apc = "done")

(* C25: every ImageResource held by an Art is held by exactly one slot    *)
(* (the source or one thumbnail width) of exactly one Art, and that Art is *)
(* its partOf owner.                                                       *)
Slots == {<<a, 0>> : a \in 1..Len(arts)} \cup ((1..Len(arts)) \X Widths)
Held(slot) ==
  IF slot[2] = 0 THEN arts[slot[1]].source
  ELSE arts[slot[1]].thumbnails[slot[2]]
C25_ExclusivelyOwned ==
  \A slot \in Slots :
    Held(slot) # 0 =>
      /\ \A other \in Slots : Held(other) = Held(slot) => other = slot
      /\ partOf[Held(slot)] = slot[1]

(* C29: for any interleaving of concurrent createThumbnail and            *)
(* loadOrCreateThumbnail calls for one width, once the map entry of the    *)
(* width is set it is never overwritten by a second generated resource.    *)
C29_NoSecondInstall ==
  [][\A w \in Widths :
       (thumbnailExists(w) /\ thumbnails'[w].rid # thumbnails[w].rid) =>
         artCalls' # artCalls]_vars

(* C30: random placement terminates and returns a grid for every pool,    *)
(* the empty pool included, and every accepted dimension input, under fair *)
(* random choice.                                                          *)
AcceptedPool ==
  /\ layIn.kind = "options" /\ ~layIn.hasArray
  /\ createFromOptions(layIn) = "none"
C30_PlacementReturnsGrid == AcceptedPool ~> (layPc = "built")

====
